---- MODULE Spec2Model ----
(***************************************************************************)
(* Model of the pacing core of tulip-scout:                                *)
(*   - TokenBucket and RateLimiter   (src/src/utils/rate_limiter.py)       *)
(*   - HunterAgentV2 sweep           (src/src/agents/hunter_v2.py)         *)
(*                                                                         *)
(* Time is a discrete clock of whole seconds (datetime.utcnow()).  A       *)
(* bucket's tokens are held as an integer number of "units": one token is  *)
(* refill_rate.den units, so that elapsed * refill_rate is exact.          *)
(* asyncio.sleep(w) suspends the task until the first clock tick that is   *)
(* at least w seconds later, or any later tick (Overshoot).                *)
(* Code between two suspension points runs at one instant, atomically, as  *)
(* a coroutine does between two awaits that really suspend.                *)
(***************************************************************************)
EXTENDS Integers, Naturals, Sequences, FiniteSets, TLC

\* ------------------------------------------------------------------ bounds
MaxCalls == 2            \* acquire() calls made in one run
MaxStatus == 1           \* get_status() calls made in one run
MaxBucketOps == 3        \* refill()/consume() calls on the bucket used alone
MaxTokens == 2           \* largest n of consume(n)
MaxFailures == 2         \* search calls that raise in one sweep
MaxDirectCalls == 2      \* execute_protocol calls made directly
MaxDeepCalls == 3        \* acquire() calls made in one run on a small limiter

\* ------------------------------------------------- program constants
SecondsPerDay == 86400   \* 24 * 60 * 60, rate_limiter.py:71
SecondsPerHour == 3600   \* 60 * 60, rate_limiter.py:78
DelayEasternEurope == 12 \* rate_limiter.py:88
DelayFarEast == 15       \* rate_limiter.py:89
DefaultMinDelay == 10    \* config.py:31
PacingDelay == 2         \* hunter_v2.py:153
SnippetLength == 300     \* hunter_v2_live.py:74

\* ------------------------------------------------- inputs
TaskIds == {1, 2}
Regions == {"Eastern_Europe", "Far_East", "Singapore"}
\* settings.linkedin_daily_limit / linkedin_hourly_limit (environment
\* configuration, config.py:29-30); the second is the default.
Limits == { [daily |-> 1, hourly |-> 5],
            [daily |-> 1, hourly |-> 6],
            [daily |-> 40, hourly |-> 10],
            [daily |-> 2, hourly |-> 1] }
\* seconds a caller lets pass before it calls
Gaps == {0, 20, 4000}
\* a limiter of 2 requests a day and 1 an hour: its region, and the seconds
\* its caller lets pass (41040 s refill 0.95 of a daily token)
DeepLimits == [daily |-> 2, hourly |-> 1]
DeepRegions == {"Eastern_Europe"}
DeepGaps == {0, 41040}
\* two tasks on one limiter: the limits, and the seconds they let pass
SharedLimits == { [daily |-> 40, hourly |-> 10], [daily |-> 1, hourly |-> 5],
                  [daily |-> 2, hourly |-> 1] }
SharedGaps == {0, 20}
\* the runs checked for termination: the limits of the limiter, and the
\* rates and the seconds between calls of the bucket used alone
LiveLimits == { [daily |-> 1, hourly |-> 5], [daily |-> 2, hourly |-> 1] }
LiveRates == { [num |-> 1, den |-> 1], [num |-> 1, den |-> 3] }
LiveBucketGaps == {0}
\* HunterAgent.execute: the task it runs in, what launching the browser
\* does, what a profile gives and whether the lead can be stored
HuntTask == 1
MaxHunts == 2
MaxProfiles == 2
StartOutcomes == {"started", "playwright_failed", "launch_failed", "context_failed"}
ProfileResults == {"raises", "no_company", "company"}
WebsiteResults == {"lead", "db_failed"}
\* CopywriterAgent.execute: the leads, the category the model replies with,
\* and whether a request to Gemini, to Gmail, to the database succeeds
MaxCopies == 2
LeadIds == {1, 2}
AnalysisReplies == {"ESG", "Innovation", "Quality", "Unknown", "Sustainability",
                    "failed", "no_category"}
ServiceOutcomes == {"ok", "failed"}
\* seconds after the last event at which get_status is called
StatusGaps == {0, 7}
\* the buckets used alone: capacity and refill_rate (tokens per second)
Capacities == {1, 2}
Rates == { [num |-> 1, den |-> 1], [num |-> 1, den |-> 3], [num |-> 2, den |-> 3] }
BucketGaps == {0, 1, 5}
\* refill rates a TokenBucket accepts besides the positive ones: the default
\* of the field (0) and negative ones
AnyRates == { [num |-> 0, den |-> 1], [num |-> -1, den |-> 1],
              [num |-> -1, den |-> 2], [num |-> 1, den |-> 2] }
\* what the injected search function returns, and the messages it raises
RawResults == {"https://examplewine.pl/catalog"}
ErrorMessages == {"search timed out"}
\* a protocol key that is not in OSINT_PROTOCOLS
UnknownProtocols == {"press_release"}
\* the texts given to extract_company_info, as sequences of characters
SeeText ==
    << "s", "e", "e", " " >>
NoUrlText ==
    << "n", "o", " ", "u", "r", "l", "s", " ", "h", "e", "r", "e" >>
ExampleUrl ==
    << "h", "t", "t", "p", "s", ":", "/", "/", "e", "x", "a", "m", "p", "l",
       "e", "w", "i", "n", "e", ".", "c", "o", ".", "u", "k", "/", "c", "a",
       "t", "a", "l", "o", "g" >>
WwwUrl ==
    << "h", "t", "t", "p", ":", "/", "/", "w", "w", "w", ".", "s", "h", "o",
       "p", "-", "w", "i", "n", "e", ".", "p", "l" >>
EmptyHostUrl ==
    << "h", "t", "t", "p", "s", ":", "/", "/", "/", "x" >>
BareScheme ==
    << "h", "t", "t", "p", "s", ":", "/", "/" >>
InnerWwwUrl ==
    << "h", "t", "t", "p", "s", ":", "/", "/", "a", "w", "w", "w", ".", "W",
       "i", "n", "e", "S", "h", "o", "p", ".", "r", "o", "/", "a" >>
UpperCaseUrl ==
    << "H", "T", "T", "P", "S", ":", "/", "/", "V", "I", "N", "O", ".", "C",
       "Z" >>
AnchorText ==
    << "<", "a", " ", "h", "r", "e", "f", "=", "\"", "h", "t", "t", "p", ":",
       "/", "/", "v", "i", "n", "o", ".", "c", "z", "/", "\"", ">" >>
ForInfoText ==
    << " ", "f", "o", "r", " ", "i", "n", "f", "o" >>
SecondUrlText ==
    << " ", "h", "t", "t", "p", ":", "/", "/", "s", "e", "c", "o", "n", "d",
       ".", "r", "o", "/", "x" >>
ClosingText ==
    << ")", "." >>
Pad(n) == [ i \in 1..n |-> "x" ]
TextStarts == { << >>, SeeText, Pad(SnippetLength - 1), Pad(SnippetLength) }
TextMiddles == { NoUrlText, ExampleUrl, WwwUrl, EmptyHostUrl, BareScheme,
                 InnerWwwUrl, UpperCaseUrl, AnchorText }
TextEnds == { << >>, ForInfoText, SecondUrlText, ClosingText }
Texts == { a \o b \o c : a \in TextStarts, b \in TextMiddles, c \in TextEnds }
ExtractCountries == {"Poland", "Japan"}
\* seconds one search call takes
SearchDurations == {1}
\* seconds by which a sleep returns late
Overshoot == {0, 1}

Min(a, b) == IF a <= b THEN a ELSE b
Max(a, b) == IF a >= b THEN a ELSE b
\* a / b rounded up to the next clock tick (b > 0)
CeilDiv(a, b) == (a + b - 1) \div b

VARIABLES
    settings,           \* src.config.settings
    now,                \* datetime.utcnow(), seconds since construction
    daily_bucket,       \* RateLimiter.daily_bucket
    hourly_bucket,      \* RateLimiter.hourly_bucket
    last_request_time,  \* RateLimiter.last_request_time
    callers,            \* the tasks that call acquire on this limiter
    pc,                 \* per task: where its acquire is suspended
    wake,               \* per task: the tick its sleep is due
    call,               \* per task: record of the acquire in progress
    log,                \* "rate_limit_acquired" events, one per return
    spent,              \* units taken from each bucket by decrements
    status_calls,       \* get_status() calls made
    status,             \* the dict the last get_status() returned
    bucket,             \* a TokenBucket used on its own
    bpc,                \* "idle", or "sleep" inside its consume
    bwake,              \* the tick the sleep of consume is due
    breq,               \* record of the consume in progress
    blog,               \* the consume calls that returned
    bops,               \* operations called on the bucket
    sweep_pc,           \* where search_all_countries is
    position,           \* its loop position: country and protocol index
    query,              \* the query of the search in flight
    all_results,        \* search_all_countries: all_results
    swake,              \* the tick the pacing sleep is due
    searches,           \* the calls of the injected search function
    search_ended,       \* the time the last of them returned or raised
    exec_pc,            \* a direct execute_protocol call: "idle" or "searching"
    exec_call,          \* its arguments and its query
    exec_log,           \* the direct execute_protocol calls that ended
    input_text,         \* the text given to extract_company_info
    extracted,          \* what extract_company_info gave, once called
    scraper,            \* playwright_scraper: its playwright, browser, context
    hunt_pc,            \* HunterAgent.execute: the scraping method it is in
    hunt,               \* HunterAgent.execute: the call in progress
    leads,              \* the leads table
    hunted,             \* the last execute call that ended
    hunts,              \* execute calls made
    drafts,             \* the drafts in Gmail
    emails,             \* the emails table
    copied,             \* the last CopywriterAgent.execute call that ended
    copies              \* CopywriterAgent.execute calls made

limiterVars == <<settings, now, daily_bucket, hourly_bucket, last_request_time,
                 callers, pc, wake, call, log, spent, status_calls, status>>

bucketVars == <<bucket, bpc, bwake, breq, blog, bops>>

sweepVars == <<sweep_pc, position, query, all_results, swake, searches,
               search_ended>>

protocolVars == <<exec_pc, exec_call, exec_log>>

extractVars == <<input_text, extracted>>

huntVars == <<scraper, hunt_pc, hunt, leads, hunted, hunts>>

copyVars == <<drafts, emails, copied, copies>>

vars == <<limiterVars, bucketVars, sweepVars, protocolVars, extractVars,
          huntVars, copyVars>>

\* ------------------------------------------------------------ TokenBucket
\* One whole token, in units of bucket b.
Unit(b) == b.refill_rate.den

\* TokenBucket(capacity, refill_rate) constructed at time t
\* (__post_init__: tokens = capacity).
NewBucket(capacity, rate, t) ==
    [ capacity    |-> capacity,
      tokens      |-> capacity * rate.den,
      last_refill |-> t,
      refill_rate |-> rate ]

\* Mutant of refill: the capacity does not cap the tokens.
refillUncapped(b, t) ==
    LET elapsed    == t - b.last_refill
        new_tokens == elapsed * b.refill_rate.num
    IN  [ b EXCEPT !.tokens      = b.tokens + new_tokens,
                   !.last_refill = t ]

\* Mutant of refill: last_refill is advanced, the time passed is not credited.
refillStampOnly(b, t) == [ b EXCEPT !.last_refill = t ]

\* Mutant of refill: last_refill is not advanced.
refillKeepsStamp(b, t) ==
    LET elapsed    == t - b.last_refill
        new_tokens == elapsed * b.refill_rate.num
    IN  [ b EXCEPT !.tokens = Min(b.capacity * Unit(b), b.tokens + new_tokens) ]

\* TokenBucket.refill at time t
refill(b, t) ==
    LET elapsed    == t - b.last_refill
        new_tokens == elapsed * b.refill_rate.num
    IN  [ b EXCEPT !.tokens      = Min(b.capacity * Unit(b), b.tokens + new_tokens),
                   !.last_refill = t ]

\* Mutant of WaitTime: sleeps for half of the time the refill needs.
WaitTimeHalved(b, n) ==
    LET tokens_needed == n * Unit(b) - b.tokens
    IN  CeilDiv(tokens_needed, 2 * b.refill_rate.num)

\* Mutant of WaitTime: multiplies by the rate instead of dividing by it.
WaitTimeMultiplied(b, n) ==
    LET tokens_needed == n * Unit(b) - b.tokens
    IN  CeilDiv(tokens_needed * b.refill_rate.num, Unit(b) * Unit(b))

\* consume: tokens_needed / refill_rate, in seconds, for a rate that is not
\* 0; tokens_needed is positive here, so a negative rate gives a negative
\* time.
WaitTime(b, n) ==
    LET tokens_needed == n * Unit(b) - b.tokens
    IN  IF b.refill_rate.num > 0
        THEN CeilDiv(tokens_needed, b.refill_rate.num)
        ELSE 0 - CeilDiv(tokens_needed, 0 - b.refill_rate.num)

\* consume: self.tokens -= tokens
Decrement(b, n) == [ b EXCEPT !.tokens = @ - n * Unit(b) ]

\* Mutant of consume: takes the tokens without waiting for them.
consumeNeverWaits(b, n, t) ==
    LET r == refill(b, t)
    IN  [ bucket |-> Decrement(r, n), wait |-> 0, seen |-> r.tokens,
          raised |-> FALSE ]

\* Mutant of consume: a rate of 0 raises nothing, the tokens are taken.
consumeUnchecked(b, n, t) ==
    LET r == refill(b, t)
    IN  IF r.tokens >= n * Unit(b) \/ r.refill_rate.num = 0
        THEN [ bucket |-> Decrement(r, n), wait |-> 0, seen |-> r.tokens,
               raised |-> FALSE ]
        ELSE [ bucket |-> r, wait |-> WaitTime(r, n), seen |-> r.tokens,
               raised |-> FALSE ]

\* TokenBucket.consume(n) from its entry at time t up to its return, its
\* sleep or its exception: wait = 0 means it returned or raised, any other
\* wait that it calls asyncio.sleep(wait).  seen: tokens after the opening
\* refill.  raised: tokens_needed / self.refill_rate divided by zero
\* (ZeroDivisionError).
consume(b, n, t) ==
    LET r == refill(b, t)
    IN  IF r.tokens >= n * Unit(b)
        THEN [ bucket |-> Decrement(r, n), wait |-> 0, seen |-> r.tokens,
               raised |-> FALSE ]
        ELSE IF r.refill_rate.num = 0
        THEN [ bucket |-> r, wait |-> 0, seen |-> r.tokens, raised |-> TRUE ]
        ELSE [ bucket |-> r, wait |-> WaitTime(r, n), seen |-> r.tokens,
               raised |-> FALSE ]

\* TokenBucket.consume after its sleep, at time t
consumeResume(b, n, t) == Decrement(refill(b, t), n)

\* ------------------------------------------------------------ RateLimiter
\* RateLimiter.region_delays
region_delays == [ Eastern_Europe |-> DelayEasternEurope, Far_East |-> DelayFarEast ]

\* Mutant of MinDelay: the regional table is ignored.
MinDelayIgnoresRegion(region, s) == s.linkedin_min_delay_seconds

\* Mutant of MinDelay: a region missing from the table is given the delay of
\* the default region of acquire.
MinDelayUnknownAsEasternEurope(region, s) ==
    IF region \in DOMAIN region_delays
    THEN region_delays[region]
    ELSE region_delays["Eastern_Europe"]

\* self.region_delays.get(region, settings.linkedin_min_delay_seconds)
MinDelay(region, s) ==
    IF region \in DOMAIN region_delays
    THEN region_delays[region]
    ELSE s.linkedin_min_delay_seconds

\* Mutant of HourlyRate: the hourly limit is refilled every minute.
HourlyRatePerMinute(s) == [ num |-> s.linkedin_hourly_limit, den |-> 60 ]

\* RateLimiter.__init__: the rates of the two buckets
DailyRate(s) == [ num |-> s.linkedin_daily_limit, den |-> SecondsPerDay ]
HourlyRate(s) == [ num |-> s.linkedin_hourly_limit, den |-> SecondsPerHour ]

NoCall == [ region |-> "", called |-> 0, start_daily |-> 0, start_hourly |-> 0,
            daily_need |-> 0, hourly_need |-> 0,
            min_wait |-> 0, daily_from |-> 0, hourly_from |-> 0,
            daily_seen |-> 0, daily_wait |-> 0, daily_had |-> 0,
            hourly_seen |-> 0, hourly_wait |-> 0, hourly_had |-> 0 ]

\* The limiter and one task's acquire, as one value the steps of acquire
\* transform: F.pc = "idle" with F.returned means acquire has returned.
Frame(t) ==
    [ daily_bucket      |-> daily_bucket,
      hourly_bucket     |-> hourly_bucket,
      last_request_time |-> last_request_time,
      spent             |-> spent,
      call              |-> call[t],
      pc                |-> pc[t],
      wake              |-> wake[t],
      returned          |-> FALSE ]

\* The seconds bucket b needs, from time t on, to hold n tokens.
WaitRequired(b, n, t) ==
    LET r == refill(b, t)
    IN  IF r.tokens >= n * Unit(r) THEN 0 ELSE WaitTime(r, n)

\* Mutant of AcquireReturn: last_request_time is the time of the call.
AcquireReturnStale(F, t) ==
    [ F EXCEPT !.last_request_time = F.call.called, !.pc = "idle", !.wake = 0,
               !.returned = TRUE ]

\* Mutant of AcquireReturn: acquire waits for a lock nobody releases.
AcquireReturnHangs(F, t) == [ F EXCEPT !.pc = "lock", !.wake = 0 ]

\* acquire: self.last_request_time = datetime.utcnow(), and return
AcquireReturn(F, t) ==
    [ F EXCEPT !.last_request_time = t, !.pc = "idle", !.wake = 0,
               !.returned = TRUE ]

\* acquire: await self.hourly_bucket.consume(1), after its sleep
AcquireHourlyResume(F, t) ==
    LET r == refill(F.hourly_bucket, t)
        b == consumeResume(F.hourly_bucket, 1, t)
    IN  AcquireReturn(
          [ F EXCEPT !.hourly_bucket = b,
                     !.spent.hourly = @ + (r.tokens - b.tokens),
                     !.call.hourly_had = r.tokens ], t)

\* acquire: await self.hourly_bucket.consume(1)
AcquireHourly(F, t) ==
    LET c == consume(F.hourly_bucket, 1, t)
        G == [ F EXCEPT !.hourly_bucket = c.bucket,
                        !.call.hourly_from = t,
                        !.call.hourly_seen = c.seen,
                        !.call.hourly_wait = c.wait ]
    IN  IF c.wait = 0
        THEN AcquireReturn(
               [ G EXCEPT !.spent.hourly = @ + (c.seen - c.bucket.tokens),
                          !.call.hourly_had = c.seen ], t)
        ELSE [ G EXCEPT !.pc = "hourly", !.wake = t + c.wait ]

\* Mutant of AcquireDailyResume: the hourly bucket is not credited the time
\* the daily consume slept.
AcquireDailyResumeRestartsHourly(F, t) ==
    LET r == refill(F.daily_bucket, t)
        b == consumeResume(F.daily_bucket, 1, t)
    IN  AcquireHourly(
          [ F EXCEPT !.daily_bucket = b,
                     !.hourly_bucket.last_refill = t,
                     !.spent.daily = @ + (r.tokens - b.tokens),
                     !.call.daily_had = r.tokens ], t)

\* acquire: await self.daily_bucket.consume(1), after its sleep
AcquireDailyResume(F, t) ==
    LET r == refill(F.daily_bucket, t)
        b == consumeResume(F.daily_bucket, 1, t)
    IN  AcquireHourly(
          [ F EXCEPT !.daily_bucket = b,
                     !.spent.daily = @ + (r.tokens - b.tokens),
                     !.call.daily_had = r.tokens ], t)

\* acquire: await self.daily_bucket.consume(1)
AcquireDaily(F, t) ==
    LET c == consume(F.daily_bucket, 1, t)
        G == [ F EXCEPT !.daily_bucket = c.bucket,
                        !.call.daily_from = t,
                        !.call.daily_seen = c.seen,
                        !.call.daily_wait = c.wait ]
    IN  IF c.wait = 0
        THEN AcquireHourly(
               [ G EXCEPT !.spent.daily = @ + (c.seen - c.bucket.tokens),
                          !.call.daily_had = c.seen ], t)
        ELSE [ G EXCEPT !.pc = "daily", !.wake = t + c.wait ]

\* Mutant of AcquireEnter: the minimum delay is not enforced.
AcquireEnterUnpaced(F, region, s, t) ==
    AcquireDaily(
      [ F EXCEPT !.call = [ NoCall EXCEPT
                              !.region = region, !.called = t,
                              !.start_daily = F.daily_bucket.tokens,
                              !.start_hourly = F.hourly_bucket.tokens,
                              !.daily_need = WaitRequired(F.daily_bucket, 1, t),
                              !.hourly_need = WaitRequired(F.hourly_bucket, 1, t) ] ],
      t)

\* acquire(region) entered at time t: the minimum delay since the last
\* request.  daily_need, hourly_need: the wait each bucket requires at t.
AcquireEnter(F, region, s, t) ==
    LET min_delay == MinDelay(region, s)
        elapsed   == t - F.last_request_time
        G == [ F EXCEPT !.call = [ NoCall EXCEPT
                                     !.region = region, !.called = t,
                                     !.start_daily = F.daily_bucket.tokens,
                                     !.start_hourly = F.hourly_bucket.tokens,
                                     !.daily_need = WaitRequired(F.daily_bucket, 1, t),
                                     !.hourly_need = WaitRequired(F.hourly_bucket, 1, t) ] ]
    IN  IF elapsed < min_delay
        THEN [ G EXCEPT !.call.min_wait = min_delay - elapsed,
                        !.pc = "min_delay", !.wake = t + (min_delay - elapsed) ]
        ELSE AcquireDaily(G, t)

\* The frame of task t, computed once, written back to the state at time T.
Commit(t, frame, T) ==
    \E F \in {frame} :
        /\ now' = T
        /\ daily_bucket' = F.daily_bucket
        /\ hourly_bucket' = F.hourly_bucket
        /\ last_request_time' = F.last_request_time
        /\ spent' = F.spent
        /\ pc' = [ pc EXCEPT ![t] = F.pc ]
        /\ wake' = [ wake EXCEPT ![t] = F.wake ]
        /\ call' = [ call EXCEPT ![t] = IF F.returned THEN NoCall ELSE F.call ]
        /\ log' = IF F.returned
                  THEN Append(log, [ F.call EXCEPT !.called = @ ] @@ [ returned |-> T ])
                  ELSE log

Started == Len(log) + Cardinality({ t \in callers : pc[t] # "idle" })

\* asyncio runs the timer that is due first
DueFirst(t) == \A u \in callers : pc[u] # "idle" => wake[t] <= wake[u]

\* A task calls acquire(region), gap seconds after the last event, in a run
\* of at most calls calls.
AcquireUpTo(t, region, gap, calls) ==
    /\ t \in callers
    /\ pc[t] = "idle"
    /\ Started < calls
    /\ Commit(t, AcquireEnter(Frame(t), region, settings, now + gap), now + gap)
    /\ UNCHANGED <<settings, callers, status_calls, status, bucketVars, sweepVars,
                   protocolVars, extractVars,
                   huntVars, copyVars>>

Acquire(t, region, gap) == AcquireUpTo(t, region, gap, MaxCalls)

AcquireDeep(t, region, gap) == AcquireUpTo(t, region, gap, MaxDeepCalls)

\* The sleep of the minimum delay ends (rate_limiter.py:108).
WakeMinDelay(t, over) ==
    /\ t \in callers
    /\ pc[t] = "min_delay"
    /\ DueFirst(t)
    /\ LET T == Max(now, wake[t]) + over
       IN  Commit(t, AcquireDaily(Frame(t), T), T)
    /\ UNCHANGED <<settings, callers, status_calls, status, bucketVars, sweepVars,
                   protocolVars, extractVars,
                   huntVars, copyVars>>

\* The sleep inside the daily bucket's consume ends (rate_limiter.py:54).
WakeDaily(t, over) ==
    /\ t \in callers
    /\ pc[t] = "daily"
    /\ DueFirst(t)
    /\ LET T == Max(now, wake[t]) + over
       IN  Commit(t, AcquireDailyResume(Frame(t), T), T)
    /\ UNCHANGED <<settings, callers, status_calls, status, bucketVars, sweepVars,
                   protocolVars, extractVars,
                   huntVars, copyVars>>

\* The sleep inside the hourly bucket's consume ends (rate_limiter.py:54).
WakeHourly(t, over) ==
    /\ t \in callers
    /\ pc[t] = "hourly"
    /\ DueFirst(t)
    /\ LET T == Max(now, wake[t]) + over
       IN  Commit(t, AcquireHourlyResume(Frame(t), T), T)
    /\ UNCHANGED <<settings, callers, status_calls, status, bucketVars, sweepVars,
                   protocolVars, extractVars,
                   huntVars, copyVars>>

NoStatus == [ daily_tokens_remaining |-> 0, daily_capacity |-> 0,
              hourly_tokens_remaining |-> 0, hourly_capacity |-> 0 ]

\* Mutant of get_status: it takes a token of each bucket it reports.
get_statusConsuming(daily, hourly, t) ==
    LET d == Decrement(refill(daily, t), 1)
        h == Decrement(refill(hourly, t), 1)
    IN  [ daily_bucket  |-> d,
          hourly_bucket |-> h,
          status |-> [ daily_tokens_remaining  |-> d.tokens,
                       daily_capacity          |-> d.capacity,
                       hourly_tokens_remaining |-> h.tokens,
                       hourly_capacity         |-> h.capacity ] ]

\* RateLimiter.get_status at time t: the two buckets after it, and the dict
\* it returns (tokens in units)
get_status(daily, hourly, t) ==
    LET d == refill(daily, t)
        h == refill(hourly, t)
    IN  [ daily_bucket  |-> d,
          hourly_bucket |-> h,
          status |-> [ daily_tokens_remaining  |-> d.tokens,
                       daily_capacity          |-> d.capacity,
                       hourly_tokens_remaining |-> h.tokens,
                       hourly_capacity         |-> h.capacity ] ]

\* RateLimiter.get_status is called, gap seconds after the last event; it
\* has no await, so it runs to its return at that instant.
GetStatus(gap) ==
    /\ status_calls < MaxStatus
    /\ status_calls' = status_calls + 1
    /\ now' = now + gap
    /\ LET g == get_status(daily_bucket, hourly_bucket, now + gap)
       IN  /\ daily_bucket' = g.daily_bucket
           /\ hourly_bucket' = g.hourly_bucket
           /\ status' = g.status
    /\ UNCHANGED <<settings, last_request_time, callers, pc, wake, call, log, spent, bucketVars, sweepVars,
                   protocolVars, extractVars,
                   huntVars, copyVars>>

\* --------------------------------------------- a TokenBucket used alone
NoRequest == [ n |-> 0, invoked |-> 0, start |-> 0, seen |-> 0 ]

\* What a consume(n) that returns at time T leaves in blog: had is the
\* tokens after the last refill before the decrement, left the tokens after it.
Returned(req, had, b, T) ==
    [ n |-> req.n, invoked |-> req.invoked, start |-> req.start, seen |-> req.seen,
      had |-> had, left |-> b.tokens, returned |-> T, raised |-> FALSE ]

\* What a consume(n) that raises at time T leaves in blog.
Raised(req, b, T) ==
    [ n |-> req.n, invoked |-> req.invoked, start |-> req.start, seen |-> req.seen,
      had |-> req.seen, left |-> b.tokens, returned |-> T, raised |-> TRUE ]

\* bucket.consume(n) is called, gap seconds after the last event.
Consume(n, gap) ==
    /\ bpc = "idle"
    /\ bops < MaxBucketOps
    /\ bops' = bops + 1
    /\ LET T   == now + gap
           c   == consume(bucket, n, T)
           req == [ n |-> n, invoked |-> T, start |-> bucket.tokens, seen |-> c.seen ]
       IN  /\ now' = T
           /\ bucket' = c.bucket
           /\ IF c.wait = 0
              THEN /\ blog' = Append(blog, IF c.raised
                                           THEN Raised(req, c.bucket, T)
                                           ELSE Returned(req, c.seen, c.bucket, T))
                   /\ UNCHANGED <<bpc, bwake, breq>>
              ELSE /\ bpc' = "sleep"
                   /\ bwake' = T + c.wait
                   /\ breq' = req
                   /\ UNCHANGED blog
    /\ UNCHANGED <<settings, daily_bucket, hourly_bucket, last_request_time,
                   callers, pc, wake, call, log, spent, status_calls, status, sweepVars,
                   protocolVars, extractVars,
                   huntVars, copyVars>>

\* The sleep inside bucket.consume ends (rate_limiter.py:54-57).
ConsumeWake(over) ==
    /\ bpc = "sleep"
    /\ LET T == Max(now, bwake) + over
           b == consumeResume(bucket, breq.n, T)
       IN  /\ now' = T
           /\ bucket' = b
           /\ blog' = Append(blog, Returned(breq, refill(bucket, T).tokens, b, T))
    /\ bpc' = "idle"
    /\ bwake' = 0
    /\ breq' = NoRequest
    /\ UNCHANGED <<settings, daily_bucket, hourly_bucket, last_request_time,
                   callers, pc, wake, call, log, spent, status_calls, status, bops, sweepVars,
                   protocolVars, extractVars,
                   huntVars, copyVars>>

\* bucket.refill() is called (as get_status does), gap seconds after the
\* last event.
Refill(gap) ==
    /\ bops < MaxBucketOps
    /\ bops' = bops + 1
    /\ now' = now + gap
    /\ bucket' = refill(bucket, now + gap)
    /\ UNCHANGED <<settings, daily_bucket, hourly_bucket, last_request_time,
                   callers, pc, wake, call, log, spent, status_calls, status,
                   bpc, bwake, breq, blog, sweepVars,
                   protocolVars, extractVars,
                   huntVars, copyVars>>

\* TokenBucket(capacity, refill_rate) constructed at time 0
InitBucket(capacity, rate) ==
    /\ bucket = NewBucket(capacity, rate, 0)
    /\ bpc = "idle"
    /\ bwake = 0
    /\ breq = NoRequest
    /\ blog = << >>
    /\ bops = 0

\* ---------------------------------------------------------- HunterAgentV2
Lit(text) == [ kind |-> "text", text |-> text ]
Field(name) == [ kind |-> "field", text |-> name ]

\* OSINT_PROTOCOLS.keys(), in the order of the dict
ProtocolOrder ==
    << "portfolio_match", "direct_executive", "official_entity", "competitor_piggyback" >>

\* OSINT_PROTOCOLS[key]["query_template"], split at its replacement fields
OSINT_PROTOCOLS ==
    [ portfolio_match |->
        << Lit("filetype:pdf \"wine portfolio\" (\"Israel\" OR \"Kosher\") site:."),
           Field("country_code") >>,
      direct_executive |->
        << Lit("site:linkedin.com/in/ (\"Wine Importer\" OR \"Distributor\" OR \"CEO\") (\""),
           Field("country_name"),
           Lit("\") -intitle:jobs") >>,
      official_entity |->
        << Lit("related:vivino.com \"wine importer\" \""),
           Field("country_name"),
           Lit("\"") >>,
      competitor_piggyback |->
        << Lit("\"imported by\" (\"Yarden\" OR \"Golan Heights\" OR \"Recanati\" OR \"Teperberg\") site:."),
           Field("country_code") >> ]

\* APPROVED_COUNTRIES.items(), in the order of the dict
APPROVED_COUNTRIES ==
    << [ code |-> "pl", name |-> "Poland" ],
       [ code |-> "ro", name |-> "Romania" ],
       [ code |-> "cz", name |-> "Czech Republic" ],
       [ code |-> "jp", name |-> "Japan" ],
       [ code |-> "kr", name |-> "South Korea" ] >>

\* Mutant of BuildQuery: only {country_code} is replaced.
BuildQueryCodeOnly(protocol_name, country) ==
    LET template == OSINT_PROTOCOLS[protocol_name]
    IN  [ k \in 1..Len(template) |->
            IF template[k] = Field("country_code")
            THEN Lit(country.code)
            ELSE template[k] ]

\* execute_protocol: protocol["query_template"].format(country_code=...,
\* country_name=...): the text of the query, part by part
BuildQuery(protocol_name, country) ==
    LET template == OSINT_PROTOCOLS[protocol_name]
        values   == [ country_code |-> country.code, country_name |-> country.name ]
    IN  [ k \in 1..Len(template) |->
            IF template[k].kind = "field"
            THEN Lit(values[template[k].text])
            ELSE template[k] ]

\* execute_protocol: the dict returned when the search returned result
SearchComplete(protocol_name, country, q, result) ==
    [ protocol |-> protocol_name, country |-> country.name, query |-> q,
      raw_result |-> result ]

\* Mutant of SearchFailed: the message of the exception is not kept.
SearchFailedNoMessage(protocol_name, country, q, e) ==
    [ protocol |-> protocol_name, country |-> country.name, query |-> q,
      error |-> "" ]

\* execute_protocol: the dict returned when the search raised e
SearchFailed(protocol_name, country, q, e) ==
    [ protocol |-> protocol_name, country |-> country.name, query |-> q,
      error |-> e ]

\* Mutant of Collect: a failed search leaves no result.
CollectSuccessful(results, result) ==
    IF "error" \in DOMAIN result THEN results ELSE Append(results, result)

\* search_all_countries: all_results.append(result)
Collect(results, result) == Append(results, result)

\* Mutant of NextPosition: protocols outer, countries inner.
NextPositionByProtocol(pos) ==
    IF pos.country < Len(APPROVED_COUNTRIES)
    THEN [ pos EXCEPT !.country = @ + 1 ]
    ELSE [ country |-> 1, protocol |-> pos.protocol + 1 ]

\* Mutant of NextPosition: the loop goes on to the pair after the next one,
\* as if the next one had been dispatched beside the current one.
NextPositionAhead(pos) ==
    IF pos.protocol + 1 < Len(ProtocolOrder)
    THEN [ pos EXCEPT !.protocol = @ + 2 ]
    ELSE [ country |-> pos.country + 1, protocol |-> 1 ]

\* search_all_countries: the two for loops, countries outer, protocols inner
NextPosition(pos) ==
    IF pos.protocol < Len(ProtocolOrder)
    THEN [ pos EXCEPT !.protocol = @ + 1 ]
    ELSE [ country |-> pos.country + 1, protocol |-> 1 ]

\* Mutant of PacingWake: no delay between searches.
PacingWakeAtOnce(t) == t

\* search_all_countries: await asyncio.sleep(2), entered at time t
PacingWake(t) == t + PacingDelay

\* the loops have run out
Exhausted(pos) ==
    pos.country > Len(APPROVED_COUNTRIES) \/ pos.protocol > Len(ProtocolOrder)

Failures == Cardinality({ i \in 1..Len(searches) : searches[i].raised })

\* execute_protocol up to its await self.search(query) (hunter_v2.py:89-106)
ExecuteProtocol ==
    /\ sweep_pc = "loop"
    /\ sweep_pc' = "searching"
    /\ query' = BuildQuery(ProtocolOrder[position.protocol],
                           APPROVED_COUNTRIES[position.country])
    /\ UNCHANGED <<limiterVars, bucketVars, position, all_results, swake, searches,
                   search_ended,
                   protocolVars, extractVars,
                   huntVars, copyVars>>

\* The search returns result after d seconds; the result is appended and
\* the sweep sleeps (hunter_v2.py:108-120, 150-153).
SearchReturns(result, d) ==
    /\ sweep_pc = "searching"
    /\ now' = now + d
    /\ searches' = Append(searches, [ query |-> query, raised |-> FALSE, value |-> result ])
    /\ all_results' = Collect(all_results,
                              SearchComplete(ProtocolOrder[position.protocol],
                                             APPROVED_COUNTRIES[position.country],
                                             query, result))
    /\ sweep_pc' = "pacing"
    /\ search_ended' = now + d
    /\ swake' = PacingWake(now + d)
    /\ UNCHANGED <<settings, daily_bucket, hourly_bucket, last_request_time,
                   callers, pc, wake, call, log, spent, status_calls, status,
                   bucketVars, position, query,
                   protocolVars, extractVars,
                   huntVars, copyVars>>

\* The search raises e after d seconds; the error result is appended and
\* the sweep sleeps (hunter_v2.py:122-134, 150-153).
SearchRaises(e, d) ==
    /\ sweep_pc = "searching"
    /\ Failures < MaxFailures
    /\ now' = now + d
    /\ searches' = Append(searches, [ query |-> query, raised |-> TRUE, value |-> e ])
    /\ all_results' = Collect(all_results,
                              SearchFailed(ProtocolOrder[position.protocol],
                                           APPROVED_COUNTRIES[position.country],
                                           query, e))
    /\ sweep_pc' = "pacing"
    /\ search_ended' = now + d
    /\ swake' = PacingWake(now + d)
    /\ UNCHANGED <<settings, daily_bucket, hourly_bucket, last_request_time,
                   callers, pc, wake, call, log, spent, status_calls, status,
                   bucketVars, position, query,
                   protocolVars, extractVars,
                   huntVars, copyVars>>

\* The pacing sleep ends; the loops step, or the sweep returns all_results
\* (hunter_v2.py:145-157).
PacingDone(over) ==
    /\ sweep_pc = "pacing"
    /\ now' = Max(now, swake) + over
    /\ position' = NextPosition(position)
    /\ sweep_pc' = IF Exhausted(NextPosition(position)) THEN "done" ELSE "loop"
    /\ UNCHANGED <<settings, daily_bucket, hourly_bucket, last_request_time,
                   callers, pc, wake, call, log, spent, status_calls, status,
                   bucketVars, query, all_results, swake, searches, search_ended,
                   protocolVars, extractVars,
                   huntVars, copyVars>>

\* --------------------------------- execute_protocol called on its own
NoExec == [ protocol_name |-> "", country |-> "", query |-> << >> ]

\* Mutant of ExecuteEnter: an unknown key falls back to an empty template.
ExecuteEnterDefaultTemplate(protocol_name, country) ==
    IF protocol_name \in DOMAIN OSINT_PROTOCOLS
    THEN [ exception |-> "", query |-> BuildQuery(protocol_name, country) ]
    ELSE [ exception |-> "", query |-> << >> ]

\* execute_protocol before its try (hunter_v2.py:89-95): the lookup
\* OSINT_PROTOCOLS[protocol_name] raises KeyError for a key not in the dict,
\* and nothing catches it.
ExecuteEnter(protocol_name, country) ==
    IF protocol_name \in DOMAIN OSINT_PROTOCOLS
    THEN [ exception |-> "", query |-> BuildQuery(protocol_name, country) ]
    ELSE [ exception |-> "KeyError", query |-> << >> ]

\* execute_protocol(protocol_name, country) is called.
CallExecuteProtocol(protocol_name, country) ==
    /\ exec_pc = "idle"
    /\ Len(exec_log) < MaxDirectCalls
    /\ LET e == ExecuteEnter(protocol_name, country)
       IN  IF e.exception = ""
           THEN /\ exec_pc' = "searching"
                /\ exec_call' = [ protocol_name |-> protocol_name,
                                  country |-> country.name, query |-> e.query ]
                /\ UNCHANGED exec_log
           ELSE /\ exec_log' = Append(exec_log,
                                      [ protocol_name |-> protocol_name,
                                        country |-> country.name,
                                        exception |-> e.exception,
                                        searched |-> FALSE ])
                /\ UNCHANGED <<exec_pc, exec_call>>
    /\ UNCHANGED <<limiterVars, bucketVars, sweepVars, extractVars,
                   huntVars, copyVars>>

\* The search of a direct call returns result after d seconds
\* (hunter_v2.py:106-120).
DirectSearchReturns(result, d) ==
    /\ exec_pc = "searching"
    /\ now' = now + d
    /\ searches' = Append(searches, [ query |-> exec_call.query, raised |-> FALSE,
                                      value |-> result ])
    /\ exec_log' = Append(exec_log,
                          [ protocol_name |-> exec_call.protocol_name,
                            country |-> exec_call.country,
                            exception |-> "", searched |-> TRUE,
                            result |-> [ protocol |-> exec_call.protocol_name,
                                         country |-> exec_call.country,
                                         query |-> exec_call.query,
                                         raw_result |-> result ] ])
    /\ exec_pc' = "idle"
    /\ exec_call' = NoExec
    /\ UNCHANGED <<settings, daily_bucket, hourly_bucket, last_request_time,
                   callers, pc, wake, call, log, spent, status_calls, status,
                   bucketVars, sweep_pc, position, query, all_results, swake,
                   search_ended, extractVars,
                   huntVars, copyVars>>

\* The search of a direct call raises e after d seconds; the exception is
\* caught (hunter_v2.py:122-134).
DirectSearchRaises(e, d) ==
    /\ exec_pc = "searching"
    /\ now' = now + d
    /\ searches' = Append(searches, [ query |-> exec_call.query, raised |-> TRUE,
                                      value |-> e ])
    /\ exec_log' = Append(exec_log,
                          [ protocol_name |-> exec_call.protocol_name,
                            country |-> exec_call.country,
                            exception |-> "", searched |-> TRUE,
                            result |-> [ protocol |-> exec_call.protocol_name,
                                         country |-> exec_call.country,
                                         query |-> exec_call.query,
                                         error |-> e ] ])
    /\ exec_pc' = "idle"
    /\ exec_call' = NoExec
    /\ UNCHANGED <<settings, daily_bucket, hourly_bucket, last_request_time,
                   callers, pc, wake, call, log, spent, status_calls, status,
                   bucketVars, sweep_pc, position, query, all_results, swake,
                   search_ended, extractVars,
                   huntVars, copyVars>>

InitProtocol ==
    /\ exec_pc = "idle"
    /\ exec_call = NoExec
    /\ exec_log = << >>

\* ------------------------------------------------ extract_company_info
\* the k-th smallest element of a set of numbers
Nth(S, k) == CHOOSE i \in S : Cardinality({ j \in S : j <= i }) = k

\* s[i:].startswith(pat)
StartsAt(s, pat, i) ==
    /\ i + Len(pat) - 1 <= Len(s)
    /\ \A k \in 1..Len(pat) : s[i + k - 1] = pat[k]

\* the characters the class of url_pattern leaves out: white space and
\* < > " { } | \ ^ [ ] (and the backquote, which no text here contains)
UrlStops == { " ", "\n", "\t", "<", ">", "\"", "{", "}", "|", "\\", "^", "[", "]" }

HttpScheme ==
    << "h", "t", "t", "p", ":", "/", "/" >>
HttpsScheme ==
    << "h", "t", "t", "p", "s", ":", "/", "/" >>

\* https?:// matched at position i and followed by one character of the
\* class at least: the position of the second slash, 0 when there is no
\* match at i
SchemeEnd(s, i) ==
    IF /\ StartsAt(s, HttpsScheme, i)
       /\ i + Len(HttpsScheme) <= Len(s)
       /\ s[i + Len(HttpsScheme)] \notin UrlStops
    THEN i + Len(HttpsScheme) - 1
    ELSE IF /\ StartsAt(s, HttpScheme, i)
            /\ i + Len(HttpScheme) <= Len(s)
            /\ s[i + Len(HttpScheme)] \notin UrlStops
    THEN i + Len(HttpScheme) - 1
    ELSE 0

\* the class repeated is greedy: the match that starts at i ends before the next
\* character the class leaves out
MatchEnd(s, i) ==
    LET stops == { k \in i..Len(s) : s[k] \in UrlStops }
    IN  IF stops = {} THEN Len(s) ELSE Nth(stops, 1) - 1

\* re.findall scans from the left and resumes after each match: a match
\* starts where the pattern matches outside every earlier match
MatchStarts(s) ==
    { i \in 1..Len(s) :
        /\ SchemeEnd(s, i) # 0
        /\ ~\E j \in 1..(i - 1) : SchemeEnd(s, j) # 0 /\ MatchEnd(s, j) >= i }

\* extract_urls_from_text: re.findall(url_pattern, text)
extract_urls_from_text(s) ==
    LET starts == MatchStarts(s)
    IN  [ k \in 1..Cardinality(starts) |->
            SubSeq(s, Nth(starts, k), MatchEnd(s, Nth(starts, k))) ]

\* str.split(sep) for a separator of one character
split(s, sep) ==
    LET at == { i \in 1..Len(s) : s[i] = sep }
        n  == Cardinality(at)
        cut(k) == IF k = 0 THEN 0 ELSE IF k = n + 1 THEN Len(s) + 1 ELSE Nth(at, k)
    IN  [ k \in 1..(n + 1) |-> SubSeq(s, cut(k - 1) + 1, cut(k) - 1) ]

WwwDot ==
    << "w", "w", "w", "." >>

\* str.replace(old, "") for an old that cannot overlap itself: every
\* occurrence is removed
replace_with_empty(s, old) ==
    LET kept == { i \in 1..Len(s) :
                    ~\E o \in 1..i : StartsAt(s, old, o) /\ i <= o + Len(old) - 1 }
    IN  [ k \in 1..Cardinality(kept) |-> s[Nth(kept, k)] ]

LowerCase ==
    << "a", "b", "c", "d", "e", "f", "g", "h", "i", "j", "k", "l", "m", "n",
       "o", "p", "q", "r", "s", "t", "u", "v", "w", "x", "y", "z" >>
UpperCase ==
    << "A", "B", "C", "D", "E", "F", "G", "H", "I", "J", "K", "L", "M", "N",
       "O", "P", "Q", "R", "S", "T", "U", "V", "W", "X", "Y", "Z" >>
IsCased(c) == \E k \in 1..Len(LowerCase) : c = LowerCase[k] \/ c = UpperCase[k]
LetterIndex(c) == CHOOSE k \in 1..Len(LowerCase) : c = LowerCase[k] \/ c = UpperCase[k]

\* str.title(): a letter that follows no letter is upper-cased, every other
\* letter lower-cased
title(s) ==
    [ k \in 1..Len(s) |->
        IF ~IsCased(s[k]) THEN s[k]
        ELSE IF k = 1 \/ ~IsCased(s[k - 1])
        THEN UpperCase[LetterIndex(s[k])]
        ELSE LowerCase[LetterIndex(s[k])] ]

\* Mutant of raw_snippet: the whole text is kept.
raw_snippetWhole(s) == s

\* text[:300]
raw_snippet(s) == SubSeq(s, 1, Min(Len(s), SnippetLength))

UnknownName ==
    << "U", "n", "k", "n", "o", "w", "n" >>

\* extract_company_info(text, country): the dict it returns, or raised when
\* urls[0].split('/')[2] is out of range (IndexError)
extract_company_info(s, country) ==
    LET info == [ country         |-> country,
                  company_name    |-> UnknownName,
                  website         |-> << >>,
                  decision_maker  |-> << >>,
                  relevance_score |-> << >>,
                  raw_snippet     |-> raw_snippet(s) ]
        urls == extract_urls_from_text(s)
    IN  IF urls = << >>
        THEN [ raised |-> FALSE, info |-> info ]
        ELSE LET parts == split(urls[1], "/")
             IN  IF Len(parts) < 3
                 THEN [ raised |-> TRUE, info |-> info ]
                 ELSE LET domain == split(replace_with_empty(parts[3], WwwDot), ".")[1]
                      IN  [ raised |-> FALSE,
                            info |-> [ info EXCEPT !.website = urls[1],
                                                   !.company_name = title(domain) ] ]

\* extract_company_info(input_text, country) is called.
ExtractCompanyInfo(country) ==
    /\ extracted = << >>
    /\ extracted' = << extract_company_info(input_text, country) >>
    /\ UNCHANGED <<input_text, limiterVars, bucketVars, sweepVars, protocolVars,
                   huntVars, copyVars>>

\* ------------------------------------------------------ PlaywrightScraper
\* PlaywrightScraper.__init__: playwright, browser and context are None.
\* A field holds "None", or an object that is "open" or "closed".
NewScraper == [ playwright |-> "None", browser |-> "None", context |-> "None" ]

\* stop: "if self.x: await self.x.close()": a field that is None is skipped,
\* an object is closed and stays in its field.
Closed(object) == IF object = "None" THEN "None" ELSE "closed"

\* PlaywrightScraper.stop: no field is assigned
stop(s) ==
    [ playwright |-> Closed(s.playwright),
      browser    |-> Closed(s.browser),
      context    |-> Closed(s.context) ]

\* PlaywrightScraper.start: it returns at once when self.browser is set;
\* outcome is what launching does: each await may raise, the fields assigned
\* before it staying set.
start(s, outcome) ==
    IF s.browser # "None"
    THEN [ scraper |-> s, raised |-> FALSE ]
    ELSE CASE outcome = "playwright_failed" ->
                [ scraper |-> s, raised |-> TRUE ]
           [] outcome = "launch_failed" ->
                [ scraper |-> [ s EXCEPT !.playwright = "open" ], raised |-> TRUE ]
           [] outcome = "context_failed" ->
                [ scraper |-> [ s EXCEPT !.playwright = "open", !.browser = "open" ],
                  raised |-> TRUE ]
           [] OTHER ->
                [ scraper |-> [ playwright |-> "open", browser |-> "open",
                                context |-> "open" ],
                  raised |-> FALSE ]

\* PlaywrightScraper.create_page: start() when self.context is None, then
\* self.context.new_page(), which raises on None and on a closed context.
\* on_closed: new_page was called on a context that had been closed.
create_page(s, outcome) ==
    LET started == IF s.context = "None"
                   THEN start(s, outcome)
                   ELSE [ scraper |-> s, raised |-> FALSE ]
        context == started.scraper.context
    IN  [ scraper   |-> started.scraper,
          raised    |-> started.raised \/ context # "open",
          on_closed |-> ~started.raised /\ context = "closed" ]

\* Mutant of ScrapeEntry: only the search is rate limited.
ScrapeEntrySearchOnly(method) ==
    [ method |-> method,
      at     |-> IF method = "linkedin_search" THEN "acquire" ELSE "page" ]

\* Where a scraping method begins: linkedin_search and
\* scrape_linkedin_profile with linkedin_rate_limiter.acquire(region),
\* scrape_company_website with create_page.
ScrapeEntry(method) ==
    [ method |-> method,
      at     |-> IF method = "scrape_company_website" THEN "page" ELSE "acquire" ]

\* ------------------------------------------------------------ HunterAgent
Idle == [ method |-> "none", at |-> "idle" ]

\* One execute call: its arguments, its locals, and what it has done.
NoHunt ==
    [ region |-> "", profile_urls |-> 0, i |-> 0, created_leads |-> << >>,
      processed |-> << >>, base |-> 0, first_lead |-> 0,
      starts |-> 0, stops |-> 0, searched |-> 0, scraped |-> 0,
      linkedin_loads |-> 0, website_scrapes |-> 0, closed_pages |-> 0 ]

NotHunted ==
    NoHunt @@ [ exit |-> "none", acquires |-> 0, leads_created |-> << >> ]

\* Mutant of Leave: the browser is stopped on return only.
LeaveStopsOnReturn(h, s, exit) ==
    IF exit = "raised"
    THEN [ scraper |-> s, hunt |-> h ]
    ELSE [ scraper |-> stop(s), hunt |-> [ h EXCEPT !.stops = @ + 1 ] ]

\* execute: finally: await playwright_scraper.stop(), whichever way the try
\* block is left
Leave(h, s, exit) ==
    [ scraper |-> stop(s), hunt |-> [ h EXCEPT !.stops = @ + 1 ] ]

\* Mutant of ProfileFailed: the loop is left at the first failure.
ProfileFailedAborts(h) ==
    [ h EXCEPT !.processed = Append(@, h.i), !.i = h.profile_urls + 1 ]

\* execute: except Exception inside the loop: log and continue
ProfileFailed(h) ==
    [ h EXCEPT !.processed = Append(@, h.i), !.i = @ + 1 ]

\* execute: lead_id = await self._process_profile(...); if lead_id:
\* created_leads.append(lead_id).  lead_id 0 stands for None.
ProfileDone(h, lead_id) ==
    [ h EXCEPT !.processed = Append(@, h.i), !.i = @ + 1,
               !.created_leads = IF lead_id = 0 THEN @ ELSE Append(@, lead_id) ]

\* execute is left with the scraper s and the leads table db: the finally
\* clause, then the return or the raise.
Exit(h, s, exit, db) ==
    LET out == Leave(h, s, exit)
    IN  /\ scraper' = out.scraper
        /\ hunted' = out.hunt @@
                     [ exit          |-> exit,
                       acquires      |-> Len(log) - h.base,
                       leads_created |-> [ k \in 1..(Len(db) - h.first_lead) |->
                                             db[h.first_lead + k].id ] ]
        /\ hunt' = NoHunt
        /\ hunt_pc' = Idle

\* execute: the for loop goes to its next profile, or execute returns.
AfterProfile(h, s, db) ==
    IF h.i > h.profile_urls
    THEN Exit(h, s, "returned", db)
    ELSE /\ scraper' = s
         /\ hunt' = [ h EXCEPT !.scraped = @ + 1 ]
         /\ hunt_pc' = ScrapeEntry("scrape_linkedin_profile")
         /\ UNCHANGED hunted

\* hunter_agent.execute(region=region) is called: start(), then
\* linkedin_search is entered (hunter.py:58-68).
HuntExecute(region, outcome) ==
    /\ hunt_pc = Idle
    /\ hunts < MaxHunts
    /\ hunts' = hunts + 1
    /\ LET st == start(scraper, outcome)
           h  == [ NoHunt EXCEPT !.region = region, !.base = Len(log),
                                 !.first_lead = Len(leads), !.starts = 1 ]
       IN  IF st.raised
           THEN Exit(h, st.scraper, "raised", leads)
           ELSE /\ scraper' = st.scraper
                /\ hunt' = [ h EXCEPT !.searched = 1 ]
                /\ hunt_pc' = ScrapeEntry("linkedin_search")
                /\ UNCHANGED hunted
    /\ UNCHANGED <<leads, limiterVars, bucketVars, sweepVars, protocolVars,
                   extractVars, copyVars>>

\* linkedin_search, scrape_linkedin_profile: await
\* linkedin_rate_limiter.acquire(region=region) (scraper_service.py:103, 240)
HuntAcquire ==
    /\ hunt_pc.at = "acquire"
    /\ pc[HuntTask] = "idle"
    /\ Commit(HuntTask, AcquireEnter(Frame(HuntTask), hunt.region, settings, now), now)
    /\ hunt_pc' = [ hunt_pc EXCEPT !.at = "page" ]
    /\ UNCHANGED <<settings, callers, status_calls, status, bucketVars, sweepVars,
                   protocolVars, extractVars, scraper, hunt, leads, hunted, hunts,
                   copyVars>>

\* linkedin_search after its acquire: create_page outside the try, then the
\* page load; every failure inside the try gives [] (scraper_service.py:
\* 242-332), and execute returns early on no profiles (hunter.py:70-72).
HuntSearch(found, outcome) ==
    /\ hunt_pc = [ method |-> "linkedin_search", at |-> "page" ]
    /\ pc[HuntTask] = "idle"
    /\ LET cp == create_page(scraper, outcome)
           h  == [ hunt EXCEPT !.closed_pages = @ + (IF cp.on_closed THEN 1 ELSE 0) ]
           g  == [ h EXCEPT !.linkedin_loads = @ + 1, !.profile_urls = found, !.i = 1 ]
       IN  IF cp.raised
           THEN Exit(h, cp.scraper, "raised", leads)
           ELSE IF found = 0
                THEN Exit(g, cp.scraper, "early", leads)
                ELSE /\ scraper' = cp.scraper
                     /\ hunt' = [ g EXCEPT !.scraped = @ + 1 ]
                     /\ hunt_pc' = ScrapeEntry("scrape_linkedin_profile")
                     /\ UNCHANGED hunted
    /\ UNCHANGED <<leads, hunts, limiterVars, bucketVars, sweepVars, protocolVars,
                   extractVars, copyVars>>

\* scrape_linkedin_profile after its acquire, and _process_profile up to
\* the company name (scraper_service.py:105-169, hunter.py:134-147): the
\* scrape raises, or the profile names no company, or it names one.
HuntScrapeProfile(result, outcome) ==
    /\ hunt_pc = [ method |-> "scrape_linkedin_profile", at |-> "page" ]
    /\ pc[HuntTask] = "idle"
    /\ LET cp == create_page(scraper, outcome)
           h  == [ hunt EXCEPT !.closed_pages = @ + (IF cp.on_closed THEN 1 ELSE 0) ]
           g  == [ h EXCEPT !.linkedin_loads = @ + 1 ]
       IN  IF cp.raised
           THEN AfterProfile(ProfileFailed(h), cp.scraper, leads)
           ELSE CASE result = "raises" ->
                       AfterProfile(ProfileFailed(g), cp.scraper, leads)
                  [] result = "no_company" ->
                       AfterProfile(ProfileDone(g, 0), cp.scraper, leads)
                  [] OTHER ->
                       /\ scraper' = cp.scraper
                       /\ hunt' = g
                       /\ hunt_pc' = ScrapeEntry("scrape_company_website")
                       /\ UNCHANGED hunted
    /\ UNCHANGED <<leads, hunts, limiterVars, bucketVars, sweepVars, protocolVars,
                   extractVars, copyVars>>

\* scrape_company_website and the rest of _process_profile (scraper_service
\* .py:184-220, hunter.py:156-221): the lead is stored and its id returned,
\* or storing it raises and no lead is left.  A page that fails to load
\* gives "" as content; score_lead and log_activity do not raise.
HuntScrapeWebsite(result, outcome) ==
    /\ hunt_pc = [ method |-> "scrape_company_website", at |-> "page" ]
    /\ pc[HuntTask] = "idle"
    /\ LET cp == create_page(scraper, outcome)
           h  == [ hunt EXCEPT !.website_scrapes = @ + 1,
                               !.closed_pages = @ + (IF cp.on_closed THEN 1 ELSE 0) ]
           lead_id == Len(leads) + 1
           db == Append(leads, [ id |-> lead_id, hunt |-> hunts, profile |-> h.i ])
       IN  IF cp.raised \/ result = "db_failed"
           THEN /\ leads' = leads
                /\ AfterProfile(ProfileFailed(h), cp.scraper, leads)
           ELSE /\ leads' = db
                /\ AfterProfile(ProfileDone(h, lead_id), cp.scraper, db)
    /\ UNCHANGED <<hunts, limiterVars, bucketVars, sweepVars, protocolVars,
                   extractVars, copyVars>>

InitHunt ==
    /\ scraper = NewScraper
    /\ hunt_pc = Idle
    /\ hunt = NoHunt
    /\ leads = << >>
    /\ hunted = NotHunted
    /\ hunts = 0

\* -------------------------------------------------------- CopywriterAgent
\* models.py: the values of the enums PainPoint and TulipAsset
PainPoint == {"ESG", "Innovation", "Quality", "Unknown"}
TulipAsset == {"Village_of_Hope", "AgTech", "Accolades"}

\* generate_email: asset_mapping, the asset of each pain point
asset_mapping ==
    [ ESG |-> "Village_of_Hope", Innovation |-> "AgTech",
      Quality |-> "Accolades", Unknown |-> "Village_of_Hope" ]

\* analyze_pain_points: the category is the text after "CATEGORY:" in the
\* reply of the model, whatever it is; "Unknown" when the reply has no such
\* line or the request failed (llm_service.py:186-213).  It never raises.
analyze_pain_points(reply) ==
    IF reply \in {"failed", "no_category"} THEN "Unknown" ELSE reply

\* generate_email: asset_mapping.get(pain_point, asset_mapping["Unknown"]);
\* a failed request is raised again (llm_service.py:257, 289-341).
generate_email(pain_point, reply) ==
    [ raised |-> reply = "failed",
      tulip_asset_used |-> IF pain_point \in DOMAIN asset_mapping
                           THEN asset_mapping[pain_point]
                           ELSE asset_mapping["Unknown"] ]

NotCopied == [ lead_id |-> 0, raised |-> FALSE, gmail_draft_id |-> 0, email_id |-> 0 ]

\* copywriter_agent.execute(lead_id, ...) is called (copywriter.py:59-155):
\* the analysis, the email, the Gmail draft, the Email record.  Email(...)
\* evaluates PainPoint(pain_point) and TulipAsset(tulip_asset), which raise
\* ValueError for a text that is no value of the enum; every exception is
\* logged and raised again.
CopywriterExecute(lead_id, analysis, generation, gmail, db) ==
    /\ copies < MaxCopies
    /\ copies' = copies + 1
    /\ LET pain_point     == analyze_pain_points(analysis)
           email_data     == generate_email(pain_point, generation)
           gmail_draft_id == Len(drafts) + 1
           email_id       == Len(emails) + 1
       IN  IF email_data.raised \/ gmail = "failed"
           THEN /\ copied' = [ lead_id |-> lead_id, raised |-> TRUE,
                               gmail_draft_id |-> 0, email_id |-> 0 ]
                /\ UNCHANGED <<drafts, emails>>
           ELSE /\ drafts' = Append(drafts, gmail_draft_id)
                /\ IF \/ pain_point \notin PainPoint
                      \/ email_data.tulip_asset_used \notin TulipAsset
                      \/ db = "failed"
                   THEN /\ copied' = [ lead_id |-> lead_id, raised |-> TRUE,
                                       gmail_draft_id |-> gmail_draft_id,
                                       email_id |-> 0 ]
                        /\ UNCHANGED emails
                   ELSE /\ emails' = Append(emails,
                                       [ id |-> email_id, lead_id |-> lead_id,
                                         detected_pain_point |-> pain_point,
                                         tulip_asset_used |-> email_data.tulip_asset_used,
                                         gmail_draft_id |-> gmail_draft_id,
                                         status |-> "draft" ])
                        /\ copied' = [ lead_id |-> lead_id, raised |-> FALSE,
                                       gmail_draft_id |-> gmail_draft_id,
                                       email_id |-> email_id ]
    /\ UNCHANGED <<limiterVars, bucketVars, sweepVars, protocolVars, extractVars,
                   huntVars>>

InitCopy ==
    /\ drafts = << >>
    /\ emails = << >>
    /\ copied = NotCopied
    /\ copies = 0

InitExtract ==
    /\ input_text = << >>
    /\ extracted = << >>

\* search_all_countries is called: all_results = []
InitSweep ==
    /\ sweep_pc = "loop"
    /\ position = [ country |-> 1, protocol |-> 1 ]
    /\ query = << >>
    /\ all_results = << >>
    /\ swake = 0
    /\ searches = << >>
    /\ search_ended = 0

\* RateLimiter() constructed at time 0 under settings s, used by tasks C
InitLimiter(s, C) ==
    /\ settings = s
    /\ now = 0
    /\ daily_bucket = NewBucket(s.linkedin_daily_limit, DailyRate(s), 0)
    /\ hourly_bucket = NewBucket(s.linkedin_hourly_limit, HourlyRate(s), 0)
    /\ last_request_time = 0
    /\ callers = C
    /\ pc = [ t \in TaskIds |-> "idle" ]
    /\ wake = [ t \in TaskIds |-> 0 ]
    /\ call = [ t \in TaskIds |-> NoCall ]
    /\ log = << >>
    /\ spent = [ daily |-> 0, hourly |-> 0 ]
    /\ status_calls = 0
    /\ status = NoStatus

Settings(l) ==
    [ linkedin_daily_limit       |-> l.daily,
      linkedin_hourly_limit      |-> l.hourly,
      linkedin_min_delay_seconds |-> DefaultMinDelay ]

DefaultLimits == [daily |-> 40, hourly |-> 10]

\* One caller on one limiter.
Init ==
    /\ \E l \in Limits : InitLimiter(Settings(l), {1})
    /\ InitBucket(1, [num |-> 1, den |-> 1])
    /\ InitSweep
    /\ InitProtocol
    /\ InitExtract
    /\ InitHunt
    /\ InitCopy

Next ==
    \/ \E t \in TaskIds, r \in Regions, g \in Gaps : Acquire(t, r, g)
    \/ \E t \in TaskIds, o \in Overshoot : WakeMinDelay(t, o)
    \/ \E t \in TaskIds, o \in Overshoot : WakeDaily(t, o)
    \/ \E t \in TaskIds, o \in Overshoot : WakeHourly(t, o)
    \/ \E g \in StatusGaps : GetStatus(g)

Spec == Init /\ [][Next]_vars

\* One caller on a limiter of 2 requests a day and 1 an hour.
InitDeep ==
    /\ InitLimiter(Settings(DeepLimits), {1})
    /\ InitBucket(1, [num |-> 1, den |-> 1])
    /\ InitSweep
    /\ InitProtocol
    /\ InitExtract
    /\ InitHunt
    /\ InitCopy

NextDeep ==
    \/ \E t \in TaskIds, r \in DeepRegions, g \in DeepGaps : AcquireDeep(t, r, g)
    \/ \E t \in TaskIds, o \in Overshoot : WakeMinDelay(t, o)
    \/ \E t \in TaskIds, o \in Overshoot : WakeDaily(t, o)
    \/ \E t \in TaskIds, o \in Overshoot : WakeHourly(t, o)

SpecDeep == InitDeep /\ [][NextDeep]_vars

\* Two tasks on one shared limiter (linkedin_rate_limiter).
InitShared ==
    /\ \E l \in SharedLimits : InitLimiter(Settings(l), {1, 2})
    /\ InitBucket(1, [num |-> 1, den |-> 1])
    /\ InitSweep
    /\ InitProtocol
    /\ InitExtract
    /\ InitHunt
    /\ InitCopy

NextShared ==
    \/ \E t \in TaskIds, r \in Regions, g \in SharedGaps : Acquire(t, r, g)
    \/ \E t \in TaskIds, o \in Overshoot : WakeMinDelay(t, o)
    \/ \E t \in TaskIds, o \in Overshoot : WakeDaily(t, o)
    \/ \E t \in TaskIds, o \in Overshoot : WakeHourly(t, o)

SpecShared == InitShared /\ [][NextShared]_vars

\* Either one caller on one limiter, or one caller on one bucket, the event
\* loop running every timer that is due.
InitLive ==
    /\ \/ /\ \E l \in LiveLimits : InitLimiter(Settings(l), {1})
          /\ InitBucket(1, [num |-> 1, den |-> 1])
       \/ /\ InitLimiter(Settings(DefaultLimits), {})
          /\ \E c \in Capacities, r \in LiveRates : InitBucket(c, r)
    /\ InitSweep
    /\ InitProtocol
    /\ InitExtract
    /\ InitHunt
    /\ InitCopy

NextLive ==
    \/ \E t \in TaskIds, r \in DeepRegions, g \in SharedGaps : Acquire(t, r, g)
    \/ \E t \in TaskIds, o \in Overshoot : WakeMinDelay(t, o)
    \/ \E t \in TaskIds, o \in Overshoot : WakeDaily(t, o)
    \/ \E t \in TaskIds, o \in Overshoot : WakeHourly(t, o)
    \/ callers = {} /\ \E n \in 1..MaxTokens, g \in LiveBucketGaps : Consume(n, g)
    \/ callers = {} /\ \E o \in Overshoot : ConsumeWake(o)

\* asyncio.sleep returns: the event loop runs a timer that is due
TimersFire ==
    /\ \A t \in TaskIds : WF_vars(\E o \in Overshoot : WakeMinDelay(t, o))
    /\ \A t \in TaskIds : WF_vars(\E o \in Overshoot : WakeDaily(t, o))
    /\ \A t \in TaskIds : WF_vars(\E o \in Overshoot : WakeHourly(t, o))
    /\ WF_vars(\E o \in Overshoot : ConsumeWake(o))

SpecLive == InitLive /\ [][NextLive]_vars /\ TimersFire

\* One caller on one bucket.
InitBucketAlone ==
    /\ InitLimiter(Settings(DefaultLimits), {})
    /\ \E c \in Capacities, r \in Rates : InitBucket(c, r)
    /\ InitSweep
    /\ InitProtocol
    /\ InitExtract
    /\ InitHunt
    /\ InitCopy

NextBucket ==
    \/ \E n \in 1..MaxTokens, g \in BucketGaps : Consume(n, g)
    \/ \E o \in Overshoot : ConsumeWake(o)
    \/ \E g \in BucketGaps : Refill(g)

SpecBucket == InitBucketAlone /\ [][NextBucket]_vars

\* One caller on one bucket whose refill rate may be 0 or negative.
InitAnyRate ==
    /\ InitLimiter(Settings(DefaultLimits), {})
    /\ \E c \in Capacities, r \in AnyRates : InitBucket(c, r)
    /\ InitSweep
    /\ InitProtocol
    /\ InitExtract
    /\ InitHunt
    /\ InitCopy

SpecAnyRate == InitAnyRate /\ [][NextBucket]_vars

\* One sweep of HunterAgentV2.
InitSweepAlone ==
    /\ InitLimiter(Settings(DefaultLimits), {})
    /\ InitBucket(1, [num |-> 1, den |-> 1])
    /\ InitSweep
    /\ InitProtocol
    /\ InitExtract
    /\ InitHunt
    /\ InitCopy

NextSweep ==
    \/ ExecuteProtocol
    \/ \E r \in RawResults, d \in SearchDurations : SearchReturns(r, d)
    \/ \E e \in ErrorMessages, d \in SearchDurations : SearchRaises(e, d)
    \/ \E o \in Overshoot : PacingDone(o)

SpecSweep == InitSweepAlone /\ [][NextSweep]_vars

\* execute_protocol called directly, with keys of the table and others.
InitProtocolAlone ==
    /\ InitLimiter(Settings(DefaultLimits), {})
    /\ InitBucket(1, [num |-> 1, den |-> 1])
    /\ InitSweep
    /\ InitProtocol
    /\ InitExtract
    /\ InitHunt
    /\ InitCopy

NextProtocol ==
    \/ \E p \in DOMAIN OSINT_PROTOCOLS \cup UnknownProtocols,
          c \in { APPROVED_COUNTRIES[i] : i \in DOMAIN APPROVED_COUNTRIES } :
          CallExecuteProtocol(p, c)
    \/ \E r \in RawResults, d \in SearchDurations : DirectSearchReturns(r, d)
    \/ \E e \in ErrorMessages, d \in SearchDurations : DirectSearchRaises(e, d)

SpecProtocol == InitProtocolAlone /\ [][NextProtocol]_vars

\* extract_company_info called on one text.
InitExtractAlone ==
    /\ InitLimiter(Settings(DefaultLimits), {})
    /\ InitBucket(1, [num |-> 1, den |-> 1])
    /\ InitSweep
    /\ InitProtocol
    /\ input_text \in Texts
    /\ extracted = << >>
    /\ InitHunt
    /\ InitCopy

NextExtract == \E c \in ExtractCountries : ExtractCompanyInfo(c)

SpecExtract == InitExtractAlone /\ [][NextExtract]_vars

\* HunterAgent.execute called again and again on the global scraper and the
\* global limiter, here one of 2 requests a day and 1 an hour.
InitHuntAlone ==
    /\ InitLimiter(Settings(DeepLimits), {HuntTask})
    /\ InitBucket(1, [num |-> 1, den |-> 1])
    /\ InitSweep
    /\ InitProtocol
    /\ InitExtract
    /\ InitHunt
    /\ InitCopy

NextHunt ==
    \/ \E r \in DeepRegions, o \in StartOutcomes : HuntExecute(r, o)
    \/ HuntAcquire
    \/ \E t \in TaskIds, o \in Overshoot : WakeMinDelay(t, o)
    \/ \E t \in TaskIds, o \in Overshoot : WakeDaily(t, o)
    \/ \E t \in TaskIds, o \in Overshoot : WakeHourly(t, o)
    \/ \E n \in 0..MaxProfiles, o \in StartOutcomes : HuntSearch(n, o)
    \/ \E r \in ProfileResults, o \in StartOutcomes : HuntScrapeProfile(r, o)
    \/ \E r \in WebsiteResults, o \in StartOutcomes : HuntScrapeWebsite(r, o)

SpecHunt == InitHuntAlone /\ [][NextHunt]_vars

\* CopywriterAgent.execute called again and again.
InitCopyAlone ==
    /\ InitLimiter(Settings(DefaultLimits), {})
    /\ InitBucket(1, [num |-> 1, den |-> 1])
    /\ InitSweep
    /\ InitProtocol
    /\ InitExtract
    /\ InitHunt
    /\ InitCopy

NextCopy ==
    \E l \in LeadIds, a \in AnalysisReplies, g \in ServiceOutcomes,
       m \in ServiceOutcomes, d \in ServiceOutcomes :
        CopywriterExecute(l, a, g, m, d)

SpecCopy == InitCopyAlone /\ [][NextCopy]_vars

\* ================================================================ claims
DailyToken == SecondsPerDay      \* one daily token, in units
HourlyToken == SecondsPerHour    \* one hourly token, in units
AllIdle == \A t \in callers : pc[t] = "idle"

\* C1: for a single caller, each acquire returns no earlier than the return
\* of the acquire before it plus the minimum delay of its own region.
C1_MinDelayBetweenReturns ==
    \A i \in 2..Len(log) :
        LET configured == CASE log[i].region = "Far_East" -> DelayFarEast
                            [] log[i].region = "Eastern_Europe" -> DelayEasternEurope
                            [] OTHER -> settings.linkedin_min_delay_seconds
        IN  log[i].returned >= log[i-1].returned + configured

\* C1 witness: a Far_East acquire called right when the previous one
\* returned has itself returned.
C1_Witness ==
    /\ Len(log) >= 2
    /\ log[2].region = "Far_East"
    /\ log[2].called = log[1].returned
    /\ log[2].returned >= log[1].returned + DelayFarEast

\* C2: for a single caller, each bucket held at least one token, after its
\* refill, at the moment acquire decremented it.
C2_BothBucketsHadAToken ==
    /\ \A i \in 1..Len(log) :
          /\ log[i].daily_had >= DailyToken
          /\ log[i].hourly_had >= HourlyToken
    /\ \A t \in callers : pc[t] = "hourly" => call[t].daily_had >= DailyToken

\* C2 witness: an acquire that found a bucket short of one token has returned.
C2_Witness ==
    \E i \in 1..Len(log) :
        \/ log[i].daily_seen < DailyToken /\ log[i].daily_wait > 0
        \/ log[i].hourly_seen < HourlyToken /\ log[i].hourly_wait > 0

\* C3: the acquires that returned took exactly one token each from the
\* daily and from the hourly bucket, and the last of them left
\* last_request_time at the time of its return.
C3_OneTokenEachAndStamp ==
    /\ spent.daily = DailyToken * (Len(log) + Cardinality({ t \in callers : pc[t] = "hourly" }))
    /\ spent.hourly = HourlyToken * Len(log)
    /\ Len(log) > 0 => last_request_time = log[Len(log)].returned

\* C3 witness: an acquire that slept has returned.
C3_Witness ==
    /\ AllIdle
    /\ \E i \in 1..Len(log) : log[i].returned > log[i].called

\* C7 (as stated): an acquire that finds exactly 1 daily token and 5 hourly
\* tokens, the minimum delay elapsed, waits for the daily bucket.
C7_Original ==
    \A i \in 1..Len(log) :
        ( /\ log[i].start_daily = DailyToken
          /\ log[i].start_hourly = 5 * HourlyToken
          /\ log[i].min_wait = 0 )
        => log[i].daily_wait > 0

\* C7 (amended): acquire waits for the daily bucket exactly when that bucket
\* holds less than one token after its refill, whatever the hourly bucket
\* holds; the wait covers the missing tokens and acquire returns after it.
C7_WaitsIffDailyShort ==
    \A i \in 1..Len(log) :
        /\ log[i].daily_seen >= DailyToken => log[i].daily_wait = 0
        /\ log[i].daily_seen < DailyToken =>
              /\ log[i].daily_wait * settings.linkedin_daily_limit
                    >= DailyToken - log[i].daily_seen
              /\ log[i].returned
                    >= log[i].called + log[i].min_wait + log[i].daily_wait

\* C7 witness: an acquire that found less than 1 daily token and 5 hourly
\* tokens has waited for the daily bucket and returned.
C7_Witness ==
    \E i \in 1..Len(log) :
        /\ log[i].daily_seen < DailyToken
        /\ log[i].start_hourly = 5 * HourlyToken
        /\ log[i].daily_wait > 0
        /\ log[i].hourly_wait = 0

\* C4: the tokens of a bucket never exceed its capacity.
C4_TokensAtMostCapacity == bucket.tokens <= bucket.capacity * Unit(bucket)

\* C4 witness: after a consume returned, a later refill has filled the
\* bucket to its capacity again.
C4_Witness ==
    /\ Len(blog) >= 1
    /\ bucket.last_refill > blog[Len(blog)].returned
    /\ bucket.tokens = bucket.capacity * Unit(bucket)

\* C5: for every n >= 1, a consume(n) that returns found n tokens in the
\* bucket at its decrement, and tokens is never below 0.
C5_Original ==
    /\ bucket.tokens >= 0
    /\ \A i \in 1..Len(blog) : blog[i].had >= blog[i].n * Unit(bucket)

Countries == Len(APPROVED_COUNTRIES)
Protocols == Len(ProtocolOrder)

\* C8: a sweep returns exactly one result for each (country, protocol) pair,
\* Countries * Protocols results in all, whichever search calls raised.
C8_OneResultPerPair ==
    sweep_pc = "done" =>
        /\ Len(all_results) = Countries * Protocols
        /\ \A c \in 1..Countries, p \in 1..Protocols :
              Cardinality({ i \in 1..Len(all_results) :
                              /\ all_results[i].country = APPROVED_COUNTRIES[c].name
                              /\ all_results[i].protocol = ProtocolOrder[p] }) = 1

\* C8 witness: a sweep in which searches raised has returned.
C8_Witness == sweep_pc = "done" /\ Failures >= 2

\* C9: the result of each pair is decided by its own search call alone: a
\* call that raised leaves the message as error and no raw_result, a call
\* that returned leaves its value as raw_result and no error, and every
\* search call made has left a result, the sweep going on after a failure.
C9_FailureStaysInItsPair ==
    /\ Len(all_results) = Len(searches)
    /\ \A i \in 1..Len(all_results) :
          LET r == all_results[i]
              c == APPROVED_COUNTRIES[((i - 1) \div Protocols) + 1]
              p == ProtocolOrder[((i - 1) % Protocols) + 1]
          IN  /\ r.query = searches[i].query
              /\ r.query = BuildQuery(p, c)
              /\ IF searches[i].raised
                 THEN r = [ protocol |-> p, country |-> c.name, query |-> r.query,
                            error |-> searches[i].value ]
                 ELSE r = [ protocol |-> p, country |-> c.name, query |-> r.query,
                            raw_result |-> searches[i].value ]
    /\ sweep_pc = "done" => Len(searches) = Countries * Protocols

\* C9 witness: the search of (Japan, portfolio_match) raised and the sweep
\* has gone on to results of later pairs.
C9_Witness ==
    \E i \in 1..Len(all_results) :
        /\ all_results[i].country = "Japan"
        /\ all_results[i].protocol = "portfolio_match"
        /\ "error" \in DOMAIN all_results[i]
        /\ "raw_result" \notin DOMAIN all_results[i]
        /\ Len(all_results) > i
        /\ "raw_result" \in DOMAIN all_results[i + 1]

\* C10: the results come countries outer, protocols inner, in the order of
\* the two tables: the i-th result is that of the i-th pair in that order.
C10_CountriesOuterProtocolsInner ==
    \A i \in 1..Len(all_results) :
        /\ all_results[i].country = APPROVED_COUNTRIES[((i - 1) \div Protocols) + 1].name
        /\ all_results[i].protocol = ProtocolOrder[((i - 1) % Protocols) + 1]

\* C10 witness: a sweep without failures has returned its results.
C10_Witness ==
    /\ sweep_pc = "done"
    /\ Failures = 0
    /\ Len(all_results) = Countries * Protocols
    /\ all_results[Protocols].country = "Poland"
    /\ all_results[Protocols + 1].country = "Romania"

\* C11: every call of the search function in a sweep comes after an acquire
\* completed for it: as many acquires have returned, and as many daily and
\* hourly tokens been taken, as searches were started.
C11_Original ==
    LET started == Len(searches) + (IF sweep_pc = "searching" THEN 1 ELSE 0)
    IN  /\ Len(log) >= started
        /\ spent.daily >= started * DailyToken
        /\ spent.hourly >= started * HourlyToken

\* C12: each search of a sweep starts at least the pacing delay after the
\* search before it ended, whether that one returned or raised.
C12_PacedSearches ==
    (sweep_pc = "searching" /\ Len(searches) >= 1) => now >= search_ended + 2

\* C12 witness: the search after one that raised is in flight, and one
\* that returned was followed by a search before.
C12_Witness ==
    /\ sweep_pc = "searching"
    /\ Len(searches) >= 2
    /\ searches[Len(searches)].raised
    /\ ~searches[Len(searches) - 1].raised

\* C17: every query of a sweep is its protocol's template with each
\* {country_code} / {country_name} replaced by the country's code / name
\* and with no replacement field left; the competitor_piggyback query of
\* Poland ends in "site:." followed by "pl".
C17_QueryFilledIn ==
    \A i \in 1..Len(searches) :
        LET q == searches[i].query
            c == APPROVED_COUNTRIES[((i - 1) \div Protocols) + 1]
            p == ProtocolOrder[((i - 1) % Protocols) + 1]
            template == OSINT_PROTOCOLS[p]
        IN  /\ Len(q) = Len(template)
            /\ \A k \in 1..Len(q) :
                  /\ q[k].kind = "text"
                  /\ template[k].kind = "text" => q[k] = template[k]
                  /\ template[k] = Field("country_code") => q[k].text = c.code
                  /\ template[k] = Field("country_name") => q[k].text = c.name
            /\ (p = "competitor_piggyback" /\ c.code = "pl") =>
                  /\ q[1].text = "\"imported by\" (\"Yarden\" OR \"Golan Heights\" OR \"Recanati\" OR \"Teperberg\") site:."
                  /\ q[2].text = "pl"
                  /\ Len(q) = 2

\* C17 witness: the queries of all four protocols have been built for
\* Poland and for another country.
C17_Witness ==
    /\ Len(searches) >= 2 * Protocols
    /\ searches[Protocols].query[2] = Lit("pl")

\* C13: get_status only refills and reports: a call leaves each bucket with
\* its tokens refilled up to the time of the call (never fewer than before)
\* and last_refill at that time, leaves the capacities, the rates and
\* last_request_time as they were, suspends nothing and lets no acquire
\* move, and returns the tokens and the capacity of each bucket.
C13_StatusOnlyRefills ==
    [][ (\E g \in StatusGaps : GetStatus(g)) =>
          /\ daily_bucket'.tokens >= daily_bucket.tokens
          /\ hourly_bucket'.tokens >= hourly_bucket.tokens
          /\ daily_bucket' =
                [ daily_bucket EXCEPT
                    !.tokens = Min(@ + (now' - daily_bucket.last_refill)
                                         * settings.linkedin_daily_limit,
                                   daily_bucket.capacity * DailyToken),
                    !.last_refill = now' ]
          /\ hourly_bucket' =
                [ hourly_bucket EXCEPT
                    !.tokens = Min(@ + (now' - hourly_bucket.last_refill)
                                         * settings.linkedin_hourly_limit,
                                   hourly_bucket.capacity * HourlyToken),
                    !.last_refill = now' ]
          /\ last_request_time' = last_request_time
          /\ pc' = pc /\ wake' = wake /\ call' = call
          /\ log' = log /\ spent' = spent
          /\ status' = [ daily_tokens_remaining  |-> daily_bucket'.tokens,
                         daily_capacity          |-> daily_bucket.capacity,
                         hourly_tokens_remaining |-> hourly_bucket'.tokens,
                         hourly_capacity         |-> hourly_bucket.capacity ]
      ]_vars

\* C13 witness: get_status was called some time after an acquire returned,
\* and reported an hourly bucket partly refilled since.
C13_Witness ==
    /\ status_calls >= 1
    /\ AllIdle
    /\ Len(log) >= 1
    /\ last_request_time < hourly_bucket.last_refill
    /\ status.hourly_tokens_remaining = hourly_bucket.tokens
    /\ status.hourly_tokens_remaining < status.hourly_capacity * HourlyToken
    /\ status.hourly_tokens_remaining
          > (status.hourly_capacity - 1) * HourlyToken

\* tokens taken by the consume calls that returned
RECURSIVE Taken(_)
Taken(entries) ==
    IF entries = << >> THEN 0
    ELSE (IF Head(entries).raised THEN 0 ELSE Head(entries).n * Unit(bucket))
         + Taken(Tail(entries))

\* C14: refill() at time now sets tokens to min(capacity, tokens before +
\* (now - last_refill) * refill_rate) and last_refill to now; with a rate
\* >= 0 it does not lower tokens, and no second is credited twice: tokens
\* held and taken never exceed the capacity plus rate * time passed.
C14_RefillCreditsElapsedOnce ==
    /\ [][ (\E g \in BucketGaps : Refill(g)) =>
              /\ bucket' =
                    [ bucket EXCEPT
                        !.tokens = Min(bucket.capacity * bucket.refill_rate.den,
                                       @ + (now' - bucket.last_refill)
                                             * bucket.refill_rate.num),
                        !.last_refill = now' ]
              /\ bucket.refill_rate.num >= 0 => bucket'.tokens >= bucket.tokens
          ]_vars
    /\ [](bucket.refill_rate.num >= 0 =>
             bucket.tokens + Taken(blog)
               <= bucket.capacity * bucket.refill_rate.den
                    + now * bucket.refill_rate.num)

\* C14 witness: after a consume returned, a later refill() at a rate above
\* 0 has raised the tokens, not up to the capacity.
C14_Witness ==
    /\ bpc = "idle"
    /\ Len(blog) >= 1
    /\ bucket.refill_rate.num > 0
    /\ bucket.last_refill > blog[Len(blog)].returned
    /\ bucket.tokens > blog[Len(blog)].left
    /\ bucket.tokens < bucket.capacity * Unit(bucket)

\* C16 (as stated): a consume(n) that finds fewer than n tokens in a bucket
\* whose refill rate is 0 or negative never ends, by return or by error.
C16_Original ==
    \A i \in 1..Len(blog) :
        ~( /\ bucket.refill_rate.num <= 0
           /\ blog[i].seen < blog[i].n * Unit(bucket) )

\* C16 (amended): a consume(n) that finds fewer than n tokens raises
\* ZeroDivisionError at once when the refill rate is 0, nothing taken and
\* nothing slept; when the rate is negative it asks for a sleep of negative
\* length, which is due at once, and returns with n tokens taken and
\* tokens below 0.
C16_ZeroRaisesNegativeReturns ==
    /\ \A i \in 1..Len(blog) :
          blog[i].seen < blog[i].n * Unit(bucket) =>
              /\ bucket.refill_rate.num = 0 =>
                    /\ blog[i].raised
                    /\ blog[i].returned = blog[i].invoked
                    /\ blog[i].left = blog[i].seen
              /\ bucket.refill_rate.num < 0 =>
                    /\ ~blog[i].raised
                    /\ blog[i].left = blog[i].had - blog[i].n * Unit(bucket)
                    /\ blog[i].had <= blog[i].seen
                    /\ blog[i].left < 0
    /\ bpc = "sleep" =>
          /\ bucket.refill_rate.num # 0
          /\ bucket.refill_rate.num < 0 => bwake < breq.invoked

\* C16 witness: a consume on an emptied bucket of refill rate 0 has raised.
C16_Witness ==
    /\ bucket.refill_rate.num = 0
    /\ Len(blog) >= 2
    /\ blog[Len(blog)].seen = 0
    /\ blog[Len(blog)].raised

\* C15: execute_protocol called with a key that is not in the protocol
\* table fails for that call alone with the exception of the lookup
\* (KeyError): the search function is not invoked for it, and the call
\* leaves both buckets and last_request_time as they were.
C15_UnknownKeyFailsAlone ==
    /\ [](/\ \A i \in 1..Len(exec_log) :
               exec_log[i].protocol_name
                   \notin { ProtocolOrder[k] : k \in 1..Len(ProtocolOrder) }
               => /\ exec_log[i].exception = "KeyError"
                  /\ ~exec_log[i].searched
          /\ exec_pc = "searching" =>
               exec_call.protocol_name
                   \in { ProtocolOrder[k] : k \in 1..Len(ProtocolOrder) }
          /\ Len(searches)
               = Cardinality({ i \in 1..Len(exec_log) : exec_log[i].searched }))
    /\ [][ (/\ Len(exec_log') > Len(exec_log)
            /\ exec_log'[Len(exec_log')].exception # "")
           => /\ daily_bucket' = daily_bucket
              /\ hourly_bucket' = hourly_bucket
              /\ last_request_time' = last_request_time
              /\ searches' = searches
              /\ exec_pc' = "idle"
              /\ now' = now ]_vars

\* C15 witness: a call with an unknown key has failed and a later call with
\* a key of the table has searched and returned.
C15_Witness ==
    /\ Len(exec_log) >= 2
    /\ exec_log[1].protocol_name = "press_release"
    /\ exec_log[1].exception = "KeyError"
    /\ exec_log[2].searched
    /\ exec_log[2].exception = ""
    /\ Len(searches) = 1

\* the text has no http:// or https:// followed by a character of a URL
NoUrl(s) == \A i \in 1..Len(s) : SchemeEnd(s, i) = 0

\* the leftmost URL of the text, up to the character that ends it
FirstUrl(s) ==
    LET i == Nth({ k \in 1..Len(s) : SchemeEnd(s, k) # 0 }, 1)
    IN  SubSeq(s, i, MatchEnd(s, i))

\* the first label of the host of a URL, "www." apart
HostLabel(url) ==
    LET after == SubSeq(url, SchemeEnd(url, 1) + 1, Len(url))
        host  == split(after, "/")[1]
    IN  split(replace_with_empty(host, WwwDot), ".")[1]

\* C18: extract_company_info raises for no text; for a text without a URL
\* it gives the company name "Unknown" and an empty website; for a text
\* with URLs it gives the first URL as website and the title-cased first
\* host label of that URL as company name ("Examplewine" for
\* https://examplewine.co.uk/catalog); the snippet is the first 300
\* characters of the text at most.
C18_ExtractionDegradesGracefully ==
    extracted # << >> =>
        LET r == extracted[1]
        IN  /\ ~r.raised
            /\ Len(r.info.raw_snippet) <= 300
            /\ r.info.raw_snippet = SubSeq(input_text, 1, Len(r.info.raw_snippet))
            /\ Len(input_text) <= 300 => r.info.raw_snippet = input_text
            /\ NoUrl(input_text) =>
                  /\ r.info.company_name = UnknownName
                  /\ r.info.website = << >>
            /\ ~NoUrl(input_text) =>
                  /\ r.info.website = FirstUrl(input_text)
                  /\ r.info.company_name = title(HostLabel(r.info.website))
            /\ input_text = SeeText \o ExampleUrl \o ForInfoText =>
                  /\ r.info.website = ExampleUrl
                  /\ r.info.company_name =
                        << "E", "x", "a", "m", "p", "l", "e", "w", "i", "n",
                           "e" >>

\* C18 witness: a text of more than 300 characters with two URLs has been
\* processed, the first URL lying across the end of the snippet.
C18_Witness ==
    /\ extracted # << >>
    /\ input_text = Pad(SnippetLength - 1) \o WwwUrl \o SecondUrlText
    /\ extracted[1].info.website = WwwUrl
    /\ Len(extracted[1].info.raw_snippet) = 300

C20_SpacingOnlyWithoutOverlap ==
    \A i, j \in 1..Len(log) :
        LET configured == CASE log[j].region = "Far_East" -> DelayFarEast
                            [] log[j].region = "Eastern_Europe" -> DelayEasternEurope
                            [] OTHER -> settings.linkedin_min_delay_seconds
        IN  (i < j /\ log[j].returned < log[i].returned + configured)
                => log[j].called < log[i].returned

\* C20 witness: two tasks called acquire at the same time and both were
\* admitted, less than the minimum delay apart.
C20_Witness ==
    /\ callers = {1, 2}
    /\ Len(log) = 2
    /\ log[1].called = log[2].called
    /\ log[1].region = "Eastern_Europe"
    /\ log[2].region = "Eastern_Europe"
    /\ log[2].returned - log[1].returned < DelayEasternEurope

\* the tokens a bucket holds at time T if nothing is taken until then
TokensAt(b, T) ==
    Min(b.capacity * b.refill_rate.den,
        b.tokens + (T - b.last_refill) * b.refill_rate.num)

\* C21: a refill() at t1 followed by a refill() at t2 >= t1 leaves the tokens
\* of one refill() at t2, a second refill() at the same instant changes
\* nothing, and a get_status call leaves every later refill of either
\* bucket, hence every later admission of acquire, as it would have been.
C21_ExtraRefillsChangeNothing ==
    /\ [](\A g1 \in StatusGaps, g2 \in Gaps :
            /\ refill(refill(daily_bucket, now + g1), now + g1 + g2).tokens
                  = TokensAt(daily_bucket, now + g1 + g2)
            /\ refill(refill(hourly_bucket, now + g1), now + g1 + g2).tokens
                  = TokensAt(hourly_bucket, now + g1 + g2)
            /\ refill(refill(daily_bucket, now + g1), now + g1)
                  = refill(daily_bucket, now + g1)
            /\ refill(refill(hourly_bucket, now + g1), now + g1)
                  = refill(hourly_bucket, now + g1))
    /\ [][ (\E g \in StatusGaps : GetStatus(g)) =>
              /\ \A g2 \in Gaps \cup {1, DelayEasternEurope} :
                    /\ TokensAt(daily_bucket', now' + g2)
                          = TokensAt(daily_bucket, now' + g2)
                    /\ TokensAt(hourly_bucket', now' + g2)
                          = TokensAt(hourly_bucket, now' + g2)
              /\ last_request_time' = last_request_time
              /\ pc' = pc /\ wake' = wake /\ call' = call
          ]_vars

\* C21 witness: get_status was called between two acquires, the buckets
\* partly refilled, and the later acquire has returned.
C21_Witness ==
    /\ AllIdle
    /\ status_calls >= 1
    /\ Len(log) >= 2
    /\ log[2].called <= log[1].returned + 20
    /\ status.hourly_tokens_remaining < status.hourly_capacity * HourlyToken
    /\ status.hourly_tokens_remaining > (status.hourly_capacity - 1) * HourlyToken
    /\ log[2].hourly_seen >= status.hourly_tokens_remaining

\* the suspension points of acquire, in the order of its code
Rank(p) ==
    CASE p = "idle" -> 0
      [] p = "min_delay" -> 1
      [] p = "daily" -> 2
      [] p = "hourly" -> 3
      [] OTHER -> 4

\* C22: with positive refill rates and one caller, every acquire and every
\* consume that is suspended returns in the end; acquire passes each of its
\* three suspension points once at most, in their order, consume sleeps
\* once at most, and neither raises.
C22_CallsReturn ==
    /\ ((\E t \in TaskIds : pc[t] # "idle") \/ bpc = "sleep")
         ~> ((\A t \in TaskIds : pc[t] = "idle") /\ bpc = "idle")
    /\ [](\A i \in 1..Len(blog) : ~blog[i].raised)
    /\ [](\A t \in TaskIds : Rank(pc[t]) <= 3)
    /\ [][ /\ \A t \in TaskIds :
                 \/ pc'[t] = pc[t]
                 \/ pc[t] = "idle"
                 \/ pc'[t] = "idle" /\ Len(log') = Len(log) + 1
                 \/ Rank(pc'[t]) > Rank(pc[t])
           /\ bpc = "sleep" /\ bpc' # "sleep" => Len(blog') = Len(blog) + 1
         ]_vars

\* C22 witness: an acquire that was suspended for the minimum delay and
\* then inside a consume has returned.
C22_Witness ==
    \E i \in 1..Len(log) :
        /\ log[i].min_wait > 0
        /\ log[i].daily_wait > 0 \/ log[i].hourly_wait > 0
        /\ log[i].returned >= log[i].called + log[i].min_wait

\* The pairs the loops of a sweep have left behind at position pos.
PairsBefore(pos) == (pos.country - 1) * Protocols + (pos.protocol - 1)

\* The pairs whose search has been started.
PairsStarted ==
    PairsBefore(position) + (IF sweep_pc \in {"searching", "pacing"} THEN 1 ELSE 0)

\* C23: at most one call of the search function is in flight: the pairs
\* whose search was started are at most one more than the searches that
\* have ended, and when the search of a pair starts every pair before it
\* has had its search end and its result appended.
C23_OneSearchInFlight ==
    /\ [](/\ PairsStarted - Len(searches) \in {0, 1}
          /\ PairsStarted - Len(searches) = 1 <=> sweep_pc = "searching"
          /\ Len(all_results) = Len(searches))
    /\ [][ sweep_pc' = "searching" /\ sweep_pc # "searching" =>
              /\ Len(searches) = PairsBefore(position')
              /\ Len(all_results) = PairsBefore(position')
              /\ \A i \in 1..PairsBefore(position') :
                    \/ "raw_result" \in DOMAIN all_results[i]
                    \/ "error" \in DOMAIN all_results[i]
          ]_vars

\* C23 witness: the first search of the second country is in flight, all
\* the searches of the first country ended, one of them by raising.
C23_Witness ==
    /\ sweep_pc = "searching"
    /\ position = [country |-> 2, protocol |-> 1]
    /\ Len(all_results) = Protocols
    /\ Failures = 1

\* C24: an acquire whose region is not in region_delays is spaced by the
\* global default of 10 s: it sleeps exactly what is missing to 10 s since
\* the last request (nothing when 10 s have passed), wakes then, and
\* returns as any other acquire, with a token taken from each bucket.
C24_UnknownRegionUsesDefault ==
    /\ \A i \in 1..Len(log) :
          log[i].region \notin {"Eastern_Europe", "Far_East"} =>
              LET last    == IF i = 1 THEN 0 ELSE log[i-1].returned
                  elapsed == log[i].called - last
              IN  /\ log[i].min_wait =
                        IF elapsed < DefaultMinDelay THEN DefaultMinDelay - elapsed ELSE 0
                  /\ log[i].returned >= last + DefaultMinDelay
                  /\ log[i].daily_from >= log[i].called + log[i].min_wait
                  /\ log[i].daily_had >= DailyToken
                  /\ log[i].hourly_had >= HourlyToken
    /\ \A t \in callers :
          (pc[t] = "min_delay" /\ call[t].region \notin {"Eastern_Europe", "Far_East"}) =>
              /\ call[t].min_wait = DefaultMinDelay - (call[t].called - last_request_time)
              /\ wake[t] = last_request_time + DefaultMinDelay

\* C24 witness: a Singapore acquire called right when the acquire before it
\* returned has slept 10 s and returned.
C24_Witness ==
    /\ Len(log) >= 2
    /\ log[2].region = "Singapore"
    /\ log[2].called = log[1].returned
    /\ log[2].min_wait = DefaultMinDelay
    /\ log[2].returned >= log[2].called + DefaultMinDelay

\* C28: from a freshly constructed limiter and with a single caller, the
\* acquires that return in any window of T seconds are at most
\* hourly capacity + T * hourly rate and at most daily capacity + T * daily
\* rate: so for the window from the i-th return to the j-th, the shortest
\* that holds these j - i + 1 returns.
C28_ReturnsPerWindow ==
    \A i, j \in 1..Len(log) :
        i <= j =>
            LET T        == log[j].returned - log[i].returned
                returns  == j - i + 1
            IN  /\ returns * SecondsPerHour
                      <= settings.linkedin_hourly_limit * SecondsPerHour
                           + T * settings.linkedin_hourly_limit
                /\ returns * SecondsPerDay
                      <= settings.linkedin_daily_limit * SecondsPerDay
                           + T * settings.linkedin_daily_limit

\* C28 witness: three acquires have returned on a limiter of 2 a day and 1
\* an hour, the second one hour and the third half a day after the first.
C28_Witness ==
    /\ Len(log) = 3
    /\ settings.linkedin_daily_limit = 2
    /\ settings.linkedin_hourly_limit = 1
    /\ log[2].hourly_wait > 0
    /\ log[3].daily_wait > 0

\* C29: after stop() the scraper is not started: between two hunts none of
\* its fields holds a closed object, so the start() of the next hunt
\* launches a new browser and context, and no page is ever created on a
\* context that has been closed.
C29_Original ==
    /\ hunt_pc = Idle =>
          /\ scraper.browser # "closed"
          /\ scraper.context # "closed"
    /\ hunt.closed_pages = 0
    /\ hunted.closed_pages = 0

\* C30: CopywriterAgent.execute is all-or-nothing: a call that raised
\* created no Gmail draft, and a draft that was created has an Email record
\* with its gmail_draft_id and status DRAFT.
C30_Original ==
    /\ copied.raised => copied.gmail_draft_id = 0
    /\ \A d \in 1..Len(drafts) :
          \E e \in 1..Len(emails) :
              emails[e].gmail_draft_id = drafts[d] /\ emails[e].status = "draft"

\* The acquires that have returned to the hunt in progress.
HuntAcquires == Len(log) - hunt.base

\* 1 while the hunt in progress is inside an acquire, or about to call it.
HuntAcquirePending ==
    IF hunt_pc.at = "acquire" \/ (hunt_pc # Idle /\ pc[HuntTask] # "idle") THEN 1 ELSE 0

\* C25: every LinkedIn page load of a hunt comes after a completed acquire
\* of its own, a hunt that scraped k profiles has performed exactly k + 1
\* acquires when it ends, and a company-website scrape performs none.
C25_Original ==
    /\ hunt.linkedin_loads <= HuntAcquires
    /\ hunted.exit # "none" => hunted.acquires = hunted.scraped + 1

\* C25 (amended): every LinkedIn page load of a hunt comes after a completed
\* acquire of its own: the acquires that returned are the calls of
\* linkedin_search and scrape_linkedin_profile made, less the one pending.
\* A hunt whose start() returned and that scraped k profiles has performed
\* exactly k + 1 acquires when it ends; a hunt whose start() raised has
\* performed none.  A company-website scrape leaves the limiter untouched.
C25_AcquireBeforeEachLinkedInLoad ==
    /\ [](/\ hunt.linkedin_loads <= HuntAcquires
          /\ hunt_pc # Idle =>
                HuntAcquires = hunt.searched + hunt.scraped - HuntAcquirePending
          /\ hunted.linkedin_loads <= hunted.acquires
          /\ hunted.exit # "none" =>
                IF hunted.searched = 1
                THEN hunted.acquires = hunted.scraped + 1
                ELSE /\ hunted.acquires = 0
                     /\ hunted.scraped = 0
                     /\ hunted.exit = "raised")
    /\ [][ /\ (hunt_pc.method = "scrape_company_website" /\ hunt_pc' # hunt_pc) =>
                 /\ log' = log
                 /\ daily_bucket' = daily_bucket
                 /\ hourly_bucket' = hourly_bucket
                 /\ last_request_time' = last_request_time
           /\ (hunt_pc' # Idle /\ hunt'.linkedin_loads > hunt.linkedin_loads) =>
                 /\ pc[HuntTask] = "idle"
                 /\ Len(log) - hunt.base >= hunt'.linkedin_loads
         ]_vars

\* C25 witness: a hunt that scraped two profiles and a company website has
\* returned after three acquires.
C25_Witness ==
    /\ hunted.exit = "returned"
    /\ hunted.scraped = 2
    /\ hunted.acquires = 3
    /\ hunted.linkedin_loads = 3
    /\ hunted.website_scrapes >= 1

\* C26: a failure while one profile is processed does not end the hunt:
\* every profile is processed, in order, and the list returned holds exactly
\* the ids of the leads this hunt stored, in profile order; a profile
\* without a company name adds no lead and no id.
C26_FailedProfileIsSkipped ==
    /\ [](/\ hunted.exit = "returned" =>
                /\ hunted.processed = [ k \in 1..hunted.profile_urls |-> k ]
                /\ hunted.created_leads = hunted.leads_created
                /\ \A a, b \in 1..Len(hunted.created_leads) :
                      a < b => leads[hunted.first_lead + a].profile
                                 < leads[hunted.first_lead + b].profile
          /\ hunt_pc # Idle =>
                /\ hunt.created_leads =
                      [ k \in 1..(Len(leads) - hunt.first_lead) |->
                          leads[hunt.first_lead + k].id ]
                /\ hunt.processed = [ k \in 1..(hunt.i - 1) |-> k ])
    /\ [][ (hunt_pc.method = "scrape_linkedin_profile" /\ hunt_pc' # hunt_pc) =>
               /\ leads' = leads
               /\ hunt' # NoHunt => hunt'.created_leads = hunt.created_leads
         ]_vars

\* C26 witness: the first profile of a hunt failed, the second one gave a
\* lead, and the hunt returned the id of that lead alone.
C26_Witness ==
    /\ hunted.exit = "returned"
    /\ hunted.profile_urls = 2
    /\ hunted.processed = <<1, 2>>
    /\ Len(hunted.created_leads) = 1
    /\ leads[Len(leads)].profile = 2
    /\ leads[Len(leads)].id = hunted.created_leads[1]
    /\ hunted.website_scrapes = 1

\* C27: every execute that ended, by returning its leads, by returning early
\* on no profiles or by raising, attempted start() once and called stop()
\* once, after it; an execute in progress has not called stop(), and when
\* an execute ends no object of the scraper is left open.
C27_StopOnceOnEveryExit ==
    /\ [](/\ hunted.exit # "none" => hunted.starts = 1 /\ hunted.stops = 1
          /\ hunted.exit \in {"none", "returned", "early", "raised"}
          /\ hunt_pc # Idle => hunt.starts = 1 /\ hunt.stops = 0)
    /\ [][ hunted' # hunted =>
               /\ hunt_pc' = Idle
               /\ hunted'.exit # "none"
               /\ "open" \notin { scraper'.playwright, scraper'.browser, scraper'.context }
         ]_vars

\* C27 witness: a hunt has returned a lead and the next one has raised,
\* each with one stop().
C27_Witness ==
    /\ hunts = 2
    /\ hunt_pc = Idle
    /\ Len(leads) >= 1
    /\ hunted.exit = "raised"
    /\ hunted.stops = 1
    /\ hunted.starts = 1

====
